---- MODULE Spec2Model ----
(***************************************************************************)
(* Connection and transaction manager of the data-access engine:           *)
(* BaseDao.connect / disconnect / commit / rollback / execute              *)
(* (core/dao/basedao.py) driven by BaseService.__start_transaction         *)
(* (core/service/service.py), for several execution contexts (threads)     *)
(* that interleave at every access to the shared registry and the pool.    *)
(***************************************************************************)
EXTENDS Integers, Sequences, FiniteSets, TLC

\* Bounds of the model.
MaxConnections == 2
MaxDepth == 2

\* The execution contexts: two threads, identified by threading.get_ident().
Contexts == {1, 2}
Connections == 1..MaxConnections

\* The DAO subclasses of impl/dao/daoimpl.py; every service owns one.
Daos == {"ClienteDao", "TipoClienteDao"}

\* Classes on which a class attribute named __connected_threads could live.
RegistryHolders == {"BaseDao"} \cup Daos

\* Absence of a key in the dictionary. A record (a _BaseConnection) is
\* [connection, cursor]: the pooled connection (0 once it has been closed and
\* given back) and the state of the cursor opened on it.
NoRecord == [connection |-> 0, cursor |-> "none"]

VARIABLES
    connected_threads,  \* holder class -> (context -> record): BaseDao.__connected_threads
    pool,               \* idle connections of BaseDao.__POOL
    stack,              \* per context, the active __start_transaction frames
    pc,                 \* per context, the position of the innermost frame
    exc,                \* per context, the exception in flight ("none" if none)
    failure,            \* per context, the first exception of the current call chain
    pending,            \* per context, connection taken from the pool, not yet registered
    trace,              \* per context, transaction events of the current call chain
    outcome,            \* per context, how the last outermost call ended
    last                \* the DAO operation performed by the step just taken

vars == <<connected_threads, pool, stack, pc, exc, failure, pending, trace,
          outcome, last>>

\* State of one call of the clause translator (core/dao/mysqldaotools.py).
VARIABLES
    clause_type,            \* class of the clauses of the list being translated
    table_db_name,          \* name of the main table of the query
    heap,                   \* clause objects by identity (0 fields = not allocated)
    clauses_list,           \* the caller's list: identities of its clause objects
    given,                  \* the caller's clauses as they were handed over
    clauses_translated,     \* identities of the translated clauses, in order
    join_alias_table_name,  \* alias map filled while FieldClauses are translated
    join_alias_dict,        \* table name -> alias, filled while joins are translated
    raised,                 \* the exception translation ended with, if any
    tr_pc,                  \* position inside the translation call
    round,                  \* 1: first translation of the list, 2: the same list again
    first_output            \* what the first translation returned or raised

tvars == <<clause_type, table_db_name, heap, clauses_list, given,
           clauses_translated, join_alias_table_name, join_alias_dict, raised,
           tr_pc, round, first_output>>

\* No translation is under way.
TranslatorIdle ==
    /\ clause_type = "none"
    /\ table_db_name = << >>
    /\ heap = << >>
    /\ clauses_list = << >>
    /\ given = << >>
    /\ clauses_translated = << >>
    /\ join_alias_table_name = {}
    /\ join_alias_dict = {}
    /\ raised = "none"
    /\ tr_pc = "off"
    /\ round = 0
    /\ first_output = << >>

\* The variables of the components the connection manager never touches.
\* A select of the DAO and the inserts before it, in one transaction.
VARIABLES
    q_pc,            \* position inside the current DAO operation
    db_rows,         \* the rows of the main table, in insertion order
    entities,        \* the entity objects the caller handed to insert, in order
    query,           \* the arguments of the select
    translated,      \* the translated clause lists and the alias dictionary
    sql,             \* the SELECT statement rendered, None before
    executed,        \* the statements executed on the cursor, in order
    result_as_dict,  \* what the cursor returned for the SELECT
    result,          \* what the select returned to its caller
    q_raised         \* the exception the operation ended with, if any

qvars == <<q_pc, db_rows, entities, query, translated, sql, executed,
           result_as_dict, result, q_raised>>

\* No DAO operation is under way.
QueryIdle ==
    /\ q_pc = "off"
    /\ db_rows = << >>
    /\ entities = << >>
    /\ query = << >>
    /\ translated = << >>
    /\ sql = << >>
    /\ executed = << >>
    /\ result_as_dict = << >>
    /\ result = << >>
    /\ q_raised = << >>

\* Calls through functions decorated with catch_exceptions.
VARIABLES
    b_pc,              \* "off", "running", "unwinding", "escaped" or "returned"
    frames,            \* the call stack: decorator and function frames, outermost first
    exceptions,        \* the exception objects created so far; identity = position
    in_flight,         \* identity of the exception being propagated, 0 if none
    tb,                \* traceback of the exception in flight, outermost frame first
    traceback_style    \* what traceback.format_tb prints for a frame

bvars == <<b_pc, frames, exceptions, in_flight, tb, traceback_style>>

\* No decorated function is being called.
BarrierIdle ==
    /\ b_pc = "off"
    /\ frames = << >>
    /\ exceptions = << >>
    /\ in_flight = 0
    /\ tb = << >>
    /\ traceback_style = "none"

\* What the steps of one component leave alone: the state of the others.
rest_vars == <<tvars, qvars, bvars>>
tr_rest == <<vars, qvars, bvars>>

----------------------------------------------------------------------------
\* Helpers on the state.

Depth(t) == Len(stack[t])
Top(t) == stack[t][Len(stack[t])]

RegistryHolder_perclass(dao) == dao
\* type(self).__connected_threads: the attribute is defined on BaseDao only,
\* so every DAO subclass resolves it to the same dictionary.
RegistryHolder(dao) == "BaseDao"

Registry(dao) == connected_threads[RegistryHolder(dao)]

IsConnected_never(dao, t) == FALSE
\* thread_id in type(self).__connected_threads
IsConnected(dao, t) == Registry(dao)[t] # NoRecord

DictSetItem_clobber(d, k, v) == [x \in DOMAIN d |-> IF x = k THEN v ELSE NoRecord]
\* d[k] = v
DictSetItem(d, k, v) == [d EXCEPT ![k] = v]

DictPop_keep(d, k) == d
\* d.pop(k, None)
DictPop(d, k) == [d EXCEPT ![k] = NoRecord]

\* The idle connection the pool hands out next; connections are
\* interchangeable, the lowest idle one stands for any of them.
NextIdle(p) == CHOOSE c \in p : \A d \in p : c <= d

PoolTake_shared(p, c) == p
\* __POOL.connection(): a dedicated connection leaves the idle set.
PoolTake(p, c) == p \ {c}

\* connection.close() of a pooled connection gives it back to the pool.
PoolGiveBack(p, c) == p \cup {c}

MustCommit_always(frame) == TRUE
\* "if i_had_to_connect:" before self._dao.commit()
MustCommit(frame) == frame.i_had_to_connect

\* "if i_had_to_connect:" before self._dao.rollback()
MustRollback(frame) == frame.i_had_to_connect

MustDisconnect_always(frame) == TRUE
\* "if i_had_to_connect:" before self._dao.disconnect()
MustDisconnect(frame) == frame.i_had_to_connect

\* No DAO operation in the step just taken.
NoEvent == [ctx |-> 0, op |-> "none", result |-> "none", dao |-> "none",
            owner |-> FALSE, connection |-> 0]

\* A DAO operation of the innermost frame of t, on connection c (0: none).
FrameEvent(t, o, r, c) ==
    [ctx |-> t, op |-> o, result |-> r, dao |-> Top(t).dao,
     owner |-> Top(t).i_had_to_connect, connection |-> c]

\* An entry of the chain's history: a finalisation performed on the shared
\* connection, and whether the frame performing it had connected.
Event(o, k, t) == [op |-> o, ok |-> k, owner |-> Top(t).i_had_to_connect,
                   connection |-> 0]

\* Leaving __start_transaction with exception e ("none": normal return):
\* the frame is popped; the caller's frame resumes its wrapped function or
\* enters its except branch; after the outermost frame the context is idle.
ExitFrame(t, e) ==
    /\ stack' = [stack EXCEPT ![t] = SubSeq(@, 1, Len(@) - 1)]
    /\ exc' = [exc EXCEPT ![t] = e]
    /\ IF Depth(t) = 1
         THEN /\ pc' = [pc EXCEPT ![t] = "idle"]
              /\ outcome' = [outcome EXCEPT ![t] =
                    IF e = "none" THEN "returned" ELSE "raised"]
         ELSE /\ pc' = [pc EXCEPT ![t] = IF e = "none" THEN "function" ELSE "except"]
              /\ UNCHANGED outcome

Raise(t, e) ==
    /\ exc' = [exc EXCEPT ![t] = e]
    /\ failure' = [failure EXCEPT ![t] = IF @ = "none" THEN e ELSE @]
    /\ pc' = [pc EXCEPT ![t] = "except"]

----------------------------------------------------------------------------
\* The connection manager before any call: nothing registered, every
\* connection idle in the pool.
ConnectionInit ==
    /\ connected_threads = [h \in RegistryHolders |-> [t \in Contexts |-> NoRecord]]
    /\ pool = Connections
    /\ stack = [t \in Contexts |-> << >>]
    /\ pc = [t \in Contexts |-> "idle"]
    /\ exc = [t \in Contexts |-> "none"]
    /\ failure = [t \in Contexts |-> "none"]
    /\ pending = [t \in Contexts |-> 0]
    /\ trace = [t \in Contexts |-> << >>]
    /\ outcome = [t \in Contexts |-> "none"]
    /\ last = NoEvent

Init ==
    /\ ConnectionInit
    /\ TranslatorIdle
    /\ QueryIdle
    /\ BarrierIdle

----------------------------------------------------------------------------
\* BaseService.__getattribute__ / __start_transaction

\* A public service method is called from outside any service call.
OuterCall(t, dao) ==
    /\ pc[t] = "idle"
    /\ stack' = [stack EXCEPT ![t] = <<[dao |-> dao, i_had_to_connect |-> FALSE]>>]
    /\ pc' = [pc EXCEPT ![t] = "connect"]
    /\ trace' = [trace EXCEPT ![t] = << >>]
    /\ exc' = [exc EXCEPT ![t] = "none"]
    /\ failure' = [failure EXCEPT ![t] = "none"]
    /\ outcome' = [outcome EXCEPT ![t] = "none"]
    /\ last' = NoEvent
    /\ UNCHANGED <<connected_threads, pool, pending>>
    /\ UNCHANGED rest_vars

\* The wrapped function calls a public method of the same or another service.
NestedCall(t, dao) ==
    /\ pc[t] = "function"
    /\ Depth(t) < MaxDepth
    /\ stack' = [stack EXCEPT ![t] = Append(@, [dao |-> dao, i_had_to_connect |-> FALSE])]
    /\ pc' = [pc EXCEPT ![t] = "connect"]
    /\ last' = NoEvent
    /\ UNCHANGED <<connected_threads, pool, exc, failure, pending, trace, outcome>>
    /\ UNCHANGED rest_vars

\* connect(): "if thread_id not in type(self).__connected_threads"; when the
\* key is there connect() returns False at once.
ConnectCheck(t) ==
    /\ pc[t] = "connect"
    /\ IF IsConnected(Top(t).dao, t)
         THEN /\ pc' = [pc EXCEPT ![t] = "function"]
              /\ last' = FrameEvent(t, "connect", "false",
                                    Registry(Top(t).dao)[t].connection)
         ELSE /\ pc' = [pc EXCEPT ![t] = "pool_connection"]
              /\ last' = NoEvent
    /\ UNCHANGED <<connected_threads, pool, stack, exc, failure, pending, trace,
                   outcome>>
    /\ UNCHANGED rest_vars

\* connect(): __POOL.connection(), blocking while no connection is idle.
PoolConnection(t) ==
    /\ pc[t] = "pool_connection"
    /\ pool # {}
    /\ LET c == NextIdle(pool) IN
         /\ pool' = PoolTake(pool, c)
         /\ pending' = [pending EXCEPT ![t] = c]
    /\ pc' = [pc EXCEPT ![t] = "register"]
    /\ last' = NoEvent
    /\ UNCHANGED <<connected_threads, stack, exc, failure, trace, outcome>>
    /\ UNCHANGED rest_vars

\* connect(): __POOL.connection() raises (the database cannot be reached).
PoolConnectionFails(t) ==
    /\ pc[t] = "pool_connection"
    /\ Raise(t, "pool_error")
    /\ last' = NoEvent
    /\ UNCHANGED <<connected_threads, pool, stack, pending, trace, outcome>>
    /\ UNCHANGED rest_vars

\* connect(): _BaseConnection(...) opens the cursor, the record is stored
\* under the thread id and connect() returns True.
Register(t) ==
    /\ pc[t] = "register"
    /\ connected_threads' = [connected_threads EXCEPT ![RegistryHolder(Top(t).dao)] =
            DictSetItem(@, t, [connection |-> pending[t], cursor |-> "open"])]
    /\ pending' = [pending EXCEPT ![t] = 0]
    /\ stack' = [stack EXCEPT ![t][Len(stack[t])].i_had_to_connect = TRUE]
    /\ pc' = [pc EXCEPT ![t] = "function"]
    /\ last' = [FrameEvent(t, "connect", "true", pending[t]) EXCEPT !.owner = TRUE]
    /\ trace' = [trace EXCEPT ![t] = Append(@,
            [op |-> "connect", ok |-> TRUE, owner |-> TRUE, connection |-> pending[t]])]
    /\ UNCHANGED <<pool, exc, failure, outcome>>
    /\ UNCHANGED rest_vars

\* connect(): connection.cursor() raises inside _BaseConnection.__init__;
\* nothing is stored and the unreferenced pooled connection goes back.
RegisterFails(t) ==
    /\ pc[t] = "register"
    /\ pool' = PoolGiveBack(pool, pending[t])
    /\ pending' = [pending EXCEPT ![t] = 0]
    /\ Raise(t, "cursor_error")
    /\ last' = NoEvent
    /\ UNCHANGED <<connected_threads, stack, trace, outcome>>
    /\ UNCHANGED rest_vars

----------------------------------------------------------------------------
\* BaseDao.__execute_query_internal, commit, rollback: what each can do in
\* the state it is called in.

ExecuteOutcomes(dao, t) ==
    IF ~IsConnected(dao, t) THEN {"no_connection"}
    ELSE IF Registry(dao)[t].cursor = "open" THEN {"ok", "stmt_error"}
    ELSE {"stmt_error"}

CommitOutcomes_unchecked(dao, t) == {"ok", "commit_error"}
CommitOutcomes(dao, t) ==
    IF IsConnected(dao, t) THEN {"ok", "commit_error"} ELSE {"no_connection"}

RollbackOutcomes(dao, t) ==
    IF IsConnected(dao, t) THEN {"ok", "rollback_error"} ELSE {"no_connection"}

\* The connection an operation of dao in context t works on (0: none).
ConnectionOf(dao, t) == Registry(dao)[t].connection

\* The wrapped function runs insert / update / delete / select of its DAO.
Execute(t) ==
    /\ pc[t] = "function"
    /\ \E r \in ExecuteOutcomes(Top(t).dao, t) :
         /\ last' = FrameEvent(t, "execute", r, ConnectionOf(Top(t).dao, t))
         /\ IF r = "ok"
              THEN UNCHANGED <<pc, exc, failure>>
              ELSE Raise(t, r)
    /\ UNCHANGED <<connected_threads, pool, stack, pending, trace, outcome>>
    /\ UNCHANGED rest_vars

\* The wrapped function raises without touching the database (for example a
\* translation fault).
FunctionRaises(t) ==
    /\ pc[t] = "function"
    /\ Raise(t, "other")
    /\ last' = NoEvent
    /\ UNCHANGED <<connected_threads, pool, stack, pending, trace, outcome>>
    /\ UNCHANGED rest_vars

\* The wrapped function returns: "if i_had_to_connect: self._dao.commit()".
FunctionReturns(t) ==
    /\ pc[t] = "function"
    /\ pc' = [pc EXCEPT ![t] = IF MustCommit(Top(t)) THEN "commit" ELSE "finally"]
    /\ last' = NoEvent
    /\ UNCHANGED <<connected_threads, pool, stack, exc, failure, pending, trace,
                   outcome>>
    /\ UNCHANGED rest_vars

\* self._dao.commit()
Commit(t) ==
    /\ pc[t] = "commit"
    /\ \E r \in CommitOutcomes(Top(t).dao, t) :
         /\ last' = FrameEvent(t, "commit", r, ConnectionOf(Top(t).dao, t))
         /\ trace' = [trace EXCEPT ![t] =
                IF r = "no_connection" THEN @ ELSE Append(@, Event("commit", r = "ok", t))]
         /\ IF r = "ok"
              THEN /\ pc' = [pc EXCEPT ![t] = "finally"]
                   /\ UNCHANGED <<exc, failure>>
              ELSE Raise(t, r)
    /\ UNCHANGED <<connected_threads, pool, stack, pending, outcome>>
    /\ UNCHANGED rest_vars

\* "except Exception: if i_had_to_connect: self._dao.rollback(); raise".
\* An exception raised by rollback() replaces the one being handled.
Except(t) ==
    /\ pc[t] = "except"
    /\ IF MustRollback(Top(t))
         THEN \E r \in RollbackOutcomes(Top(t).dao, t) :
                /\ last' = FrameEvent(t, "rollback", r, ConnectionOf(Top(t).dao, t))
                /\ trace' = [trace EXCEPT ![t] =
                      IF r = "no_connection" THEN @
                      ELSE Append(@, Event("rollback", r = "ok", t))]
                /\ exc' = [exc EXCEPT ![t] = IF r = "ok" THEN @ ELSE r]
         ELSE /\ last' = NoEvent
              /\ UNCHANGED <<trace, exc>>
    /\ pc' = [pc EXCEPT ![t] = "finally"]
    /\ UNCHANGED <<connected_threads, pool, stack, failure, pending, outcome>>
    /\ UNCHANGED rest_vars

\* "finally: if i_had_to_connect: self._dao.disconnect()"; a frame that did
\* not connect leaves __start_transaction here.
Finally(t) ==
    /\ pc[t] = "finally"
    /\ IF MustDisconnect(Top(t))
         THEN /\ pc' = [pc EXCEPT ![t] = "disconnect"]
              /\ last' = NoEvent
              /\ UNCHANGED <<stack, exc, outcome>>
         ELSE /\ ExitFrame(t, exc[t])
              /\ last' = FrameEvent(t, "leave",
                       IF exc[t] = "none" THEN "returned" ELSE "raised", 0)
    /\ UNCHANGED <<connected_threads, pool, failure, pending, trace>>
    /\ UNCHANGED rest_vars

\* disconnect(): "if thread_id in type(self).__connected_threads"
Disconnect(t) ==
    /\ pc[t] = "disconnect"
    /\ IF IsConnected(Top(t).dao, t)
         THEN /\ pc' = [pc EXCEPT ![t] = "close_cursor"]
              /\ UNCHANGED <<stack, exc, outcome>>
         ELSE ExitFrame(t, exc[t])
    /\ last' = NoEvent
    /\ UNCHANGED <<connected_threads, pool, failure, pending, trace>>
    /\ UNCHANGED rest_vars

\* _BaseConnection.close(): self.cursor.close()
CloseCursor(t) ==
    /\ pc[t] = "close_cursor"
    /\ connected_threads' = [connected_threads EXCEPT
            ![RegistryHolder(Top(t).dao)][t].cursor = "closed"]
    /\ pc' = [pc EXCEPT ![t] = "close_connection"]
    /\ last' = NoEvent
    /\ UNCHANGED <<pool, stack, exc, failure, pending, trace, outcome>>
    /\ UNCHANGED rest_vars

\* self.cursor.close() raises: close() and disconnect() are left at once, the
\* cursor is in either state, and the exception leaves __start_transaction.
CloseCursorFails(t) ==
    /\ pc[t] = "close_cursor"
    /\ \E cur \in {"open", "closed"} :
         connected_threads' = [connected_threads EXCEPT
            ![RegistryHolder(Top(t).dao)][t].cursor = cur]
    /\ trace' = [trace EXCEPT ![t] = Append(@, Event("disconnect", FALSE, t))]
    /\ failure' = [failure EXCEPT ![t] = IF @ = "none" THEN "close_error" ELSE @]
    /\ last' = FrameEvent(t, "disconnect", "close_error", ConnectionOf(Top(t).dao, t))
    /\ ExitFrame(t, "close_error")
    /\ UNCHANGED <<pool, pending>>
    /\ UNCHANGED rest_vars

\* _BaseConnection.close(): self.connection.close() gives the connection back.
CloseConnection(t) ==
    /\ pc[t] = "close_connection"
    /\ LET c == ConnectionOf(Top(t).dao, t) IN
         /\ pool' = IF c = 0 THEN pool ELSE PoolGiveBack(pool, c)
         /\ connected_threads' = [connected_threads EXCEPT
                ![RegistryHolder(Top(t).dao)][t].connection = 0]
    /\ pc' = [pc EXCEPT ![t] = "pop"]
    /\ last' = NoEvent
    /\ UNCHANGED <<stack, exc, failure, pending, trace, outcome>>
    /\ UNCHANGED rest_vars

\* self.connection.close() raises: the connection is not given back.
CloseConnectionFails(t) ==
    /\ pc[t] = "close_connection"
    /\ trace' = [trace EXCEPT ![t] = Append(@, Event("disconnect", FALSE, t))]
    /\ failure' = [failure EXCEPT ![t] = IF @ = "none" THEN "close_error" ELSE @]
    /\ last' = FrameEvent(t, "disconnect", "close_error", ConnectionOf(Top(t).dao, t))
    /\ ExitFrame(t, "close_error")
    /\ UNCHANGED <<connected_threads, pool, pending>>
    /\ UNCHANGED rest_vars

\* disconnect(): type(self).__connected_threads.pop(thread_id, None)
Pop(t) ==
    /\ pc[t] = "pop"
    /\ connected_threads' = [connected_threads EXCEPT ![RegistryHolder(Top(t).dao)] =
            DictPop(@, t)]
    /\ trace' = [trace EXCEPT ![t] = Append(@, Event("disconnect", TRUE, t))]
    /\ last' = FrameEvent(t, "disconnect", "ok", 0)
    /\ ExitFrame(t, exc[t])
    /\ UNCHANGED <<pool, failure, pending>>
    /\ UNCHANGED rest_vars

----------------------------------------------------------------------------
\* The DAO primitives called by code that is not inside a service call; the
\* history of the previous call chain is dropped.

DaoCall(t, dao, o, outcomes) ==
    /\ pc[t] = "idle"
    /\ \E r \in outcomes :
         last' = [ctx |-> t, op |-> o, result |-> r, dao |-> dao, owner |-> FALSE,
                  connection |-> IF r = "no_connection" THEN 0 ELSE ConnectionOf(dao, t)]
    /\ trace' = [trace EXCEPT ![t] = << >>]
    /\ exc' = [exc EXCEPT ![t] = "none"]
    /\ failure' = [failure EXCEPT ![t] = "none"]
    /\ outcome' = [outcome EXCEPT ![t] = "none"]
    /\ UNCHANGED <<connected_threads, pool, stack, pc, pending>>
    /\ UNCHANGED rest_vars

DaoCommit(t, dao) == DaoCall(t, dao, "dao_commit", CommitOutcomes(dao, t))

DaoRollback(t, dao) == DaoCall(t, dao, "dao_rollback", RollbackOutcomes(dao, t))

DaoExecute(t, dao) == DaoCall(t, dao, "dao_execute", ExecuteOutcomes(dao, t))

----------------------------------------------------------------------------
Next ==
    \E t \in Contexts :
        \/ \E dao \in Daos : OuterCall(t, dao)
        \/ \E dao \in Daos : NestedCall(t, dao)
        \/ ConnectCheck(t)
        \/ PoolConnection(t)
        \/ PoolConnectionFails(t)
        \/ Register(t)
        \/ RegisterFails(t)
        \/ Execute(t)
        \/ FunctionRaises(t)
        \/ FunctionReturns(t)
        \/ Commit(t)
        \/ Except(t)
        \/ Finally(t)
        \/ Disconnect(t)
        \/ CloseCursor(t)
        \/ CloseCursorFails(t)
        \/ CloseConnection(t)
        \/ CloseConnectionFails(t)
        \/ Pop(t)
        \/ \E dao \in Daos : DaoCommit(t, dao)
        \/ \E dao \in Daos : DaoRollback(t, dao)
        \/ \E dao \in Daos : DaoExecute(t, dao)

Spec == Init /\ [][Next]_vars

----------------------------------------------------------------------------
\* Vocabulary of the properties.

\* The classes whose dictionary holds a record of context t.
RecordHolders(t) == {h \in RegistryHolders : connected_threads[h][t] # NoRecord}

HasRecord(t) == RecordHolders(t) # {}

\* Some active call of t got True from connect() and has not left disconnect().
Owns(t) == \E i \in 1..Depth(t) : stack[t][i].i_had_to_connect

\* The finalisations (commit, rollback, disconnect) of the chain, in order.
Finalisations(t) == SelectSeq(trace[t], LAMBDA e : e.op # "connect")

\* The outermost call of t has returned or raised.
ChainEnded(t) == pc[t] = "idle" /\ outcome[t] # "none"

ChainConnected(t) == \E i \in DOMAIN trace[t] : trace[t][i].op = "connect"

DaoOps == {"dao_commit", "dao_rollback", "dao_execute"}

----------------------------------------------------------------------------
\* C1: in any nesting of service calls of one context, a commit or a
\* rollback of the shared connection is performed only by a call whose
\* connect() returned True, whether the calls return or raise.
C1_OnlyOwnerCommitsOrRollsBack ==
    /\ (last.op \in {"commit", "rollback"} /\ last.result # "no_connection")
          => last.owner
    /\ \A t \in Contexts : \A i \in DOMAIN trace[t] :
          trace[t][i].op \in {"commit", "rollback"} => trace[t][i].owner

\* A nested call whose connect() returned False has just raised out of
\* __start_transaction: the chain has seen no commit and no rollback.
C1_Witness ==
    /\ last.op = "leave"
    /\ last.result = "raised"
    /\ ~last.owner
    /\ Depth(last.ctx) = 1
    /\ stack[last.ctx][1].i_had_to_connect
    /\ Len(trace[last.ctx]) = 1

\* C2: a context has at most one record in the registry, and has one exactly
\* while one of its calls is between the connect() that returned True and
\* the disconnect() of that call.
C2_RecordIffOwnedTransaction ==
    \A t \in Contexts :
        /\ Cardinality(RecordHolders(t)) <= 1
        /\ HasRecord(t) <=> Owns(t)

\* C3: connect() in a context without a record goes on to take a connection
\* and returns True with the record stored; connect() called again before the
\* disconnect() returns False and changes neither the registry, the record's
\* connection and cursor, nor the pool.
C3_ReentrantConnect ==
    [][\A t \in Contexts :
        /\ (pc[t] = "connect" /\ pc'[t] # "connect" /\ HasRecord(t))
              => /\ pc'[t] = "function"
                 /\ stack'[t] = stack[t]
                 /\ ~stack'[t][Len(stack'[t])].i_had_to_connect
                 /\ connected_threads' = connected_threads
                 /\ pool' = pool
                 /\ pending' = pending
                 /\ last'.op = "connect" /\ last'.result = "false"
        /\ (pc[t] = "connect" /\ pc'[t] # "connect" /\ ~HasRecord(t))
              => pc'[t] = "pool_connection"
        /\ (pc[t] = "register" /\ pc'[t] = "function")
              => /\ stack'[t][Len(stack'[t])].i_had_to_connect
                 /\ connected_threads'["BaseDao"][t] =
                        [connection |-> pending[t], cursor |-> "open"]
                 /\ last'.op = "connect" /\ last'.result = "true"]_vars

\* The second connect() of a context has just returned False.
C3_Witness ==
    /\ last.op = "connect"
    /\ last.result = "false"
    /\ Depth(last.ctx) = 2
    /\ stack[last.ctx][1].i_had_to_connect
    /\ connected_threads["BaseDao"][last.ctx].cursor = "open"

C5_StatementFailureRolledBackByOwner ==
    \A t \in Contexts :
        (ChainEnded(t) /\ failure[t] = "stmt_error")
           => /\ outcome[t] = "raised"
              /\ exc[t] = "stmt_error"
              /\ Len(Finalisations(t)) = 2
              /\ Finalisations(t)[1].op = "rollback" /\ Finalisations(t)[1].owner
              /\ Finalisations(t)[2].op = "disconnect" /\ Finalisations(t)[2].owner

\* C6: commit, rollback or a statement in a context without a record raises
\* the no-connection fault, touches no connection, and leaves the registry
\* and the pool as they are.
C6_NoConnectionFault ==
    /\ [](\A t \in Contexts :
            (last.ctx = t /\ ~HasRecord(t)
               /\ last.op \in DaoOps \cup {"commit", "rollback", "execute"})
            => (last.result = "no_connection" /\ last.connection = 0))
    /\ [][last'.op \in DaoOps
            => (connected_threads' = connected_threads /\ pool' = pool)]_vars

\* A DAO operation has just raised the no-connection fault while the other
\* context holds a record.
C6_Witness ==
    /\ last.op \in DaoOps
    /\ last.result = "no_connection"
    /\ ~HasRecord(last.ctx)
    /\ \E u \in Contexts : u # last.ctx /\ HasRecord(u)

\* C7: once an outermost call that created the record of its context has
\* returned or raised, the context has no record.
C7_OwnerDestroysRecord ==
    \A t \in Contexts : (ChainEnded(t) /\ ChainConnected(t)) => ~HasRecord(t)

\* C8: under every interleaving of the steps of connect() and disconnect()
\* of different contexts, the entry of a context changes only in that
\* context's own insert, close or remove, and the record a context inserted
\* stays in the registry until its own disconnect().
C8_RegistryUpdatesIsolated ==
    /\ [](\A t \in Contexts : Owns(t) => connected_threads["BaseDao"][t] # NoRecord)
    /\ [][\A t \in Contexts : \A h \in RegistryHolders :
            connected_threads'[h][t] # connected_threads[h][t]
              => /\ pc[t] \in {"register", "close_cursor", "close_connection", "pop"}
                 /\ pc'[t] # pc[t]
                 /\ \A u \in Contexts \ {t} : pc'[u] = pc[u] /\ stack'[u] = stack[u]]_vars

\* A context has just inserted its record while the other one is between the
\* close and the remove of its own disconnect().
C8_Witness ==
    /\ last.op = "connect"
    /\ last.result = "true"
    /\ \E u \in Contexts : u # last.ctx /\ pc[u] = "pop"

\* Connections held by a context: in its record or just taken from the pool.
Held(t) ==
    {connected_threads[h][t].connection : h \in RecordHolders(t)} \cup {pending[t]}

\* C9: a pooled connection held by a context is held by no other context and
\* is not idle in the pool.
C9_ConnectionsExclusive ==
    \A t \in Contexts :
        /\ \A u \in Contexts \ {t} : (Held(t) \cap Held(u)) \subseteq {0}
        /\ Held(t) \cap pool = {}

\* Both contexts hold a record, each with its own connection.
C9_Witness ==
    \E t \in Contexts : \E u \in Contexts \ {t} :
        /\ connected_threads["BaseDao"][t].connection # 0
        /\ connected_threads["BaseDao"][u].connection # 0
        /\ pc[t] = "function" /\ pc[u] = "function"

\* C10: every statement of a call chain, whatever DAO runs it, uses the
\* connection of the single record of its context, the one the outermost
\* call registered; no call of the chain creates a second record.
C10_NestedCallsShareRecord ==
    \A t \in Contexts :
        /\ Cardinality(RecordHolders(t)) <= 1
        /\ Cardinality({i \in DOMAIN trace[t] : trace[t][i].op = "connect"}) <= 1
        /\ (last.ctx = t /\ last.op = "execute" /\ last.result # "no_connection")
              => /\ last.connection = connected_threads["BaseDao"][t].connection
                 /\ last.connection # 0
                 /\ ChainConnected(t) => last.connection = trace[t][1].connection

\* A nested call through another DAO has just executed a statement.
C10_Witness ==
    /\ last.op = "execute"
    /\ last.result = "ok"
    /\ Depth(last.ctx) = 2
    /\ stack[last.ctx][1].i_had_to_connect
    /\ stack[last.ctx][1].dao # last.dao

----------------------------------------------------------------------------
\* Clause translator: core/dao/mysqldaotools.py
\*
\* A Python str is a sequence of tokens: identifiers are single tokens, and
\* "." and the two alias separators are tokens of their own, so that two
\* strings are equal exactly when they are built from the same pieces.

\* Python's None. No string of the model is empty.
None == << >>

DOT == "."
\* _field_alias_separator and _join_alias_separator
field_alias_separator == "$123$"
join_alias_separator == "$456$"

Str(token) == <<token>>

\* str.split(sep): the pieces of s between the occurrences of the token sep.
RECURSIVE Split(_, _)
Split(s, sep) ==
    IF \A i \in DOMAIN s : s[i] # sep
    THEN <<s>>
    ELSE LET i == CHOOSE k \in DOMAIN s :
                      s[k] = sep /\ \A j \in 1..(k - 1) : s[j] # sep
         IN  <<SubSeq(s, 1, i - 1)>> \o Split(SubSeq(s, i + 1, Len(s)), sep)

\* sep.join(parts)
RECURSIVE Join(_, _)
Join(parts, sep) ==
    IF parts = << >> THEN << >>
    ELSE IF Len(parts) = 1 THEN parts[1]
    ELSE parts[1] \o <<sep>> \o Join(Tail(parts), sep)

\* Python indexing of a list, negative indexes counting from the end.
PyIndex(arr, i) == IF i < 0 THEN arr[Len(arr) + i + 1] ELSE arr[i + 1]

\* The entity types of impl/model and their __model_dict, in declaration
\* order, cut down to the fields the translation distinguishes: the
\* identifier, one scalar column and the relations.
EntityTypes == {"Cliente", "TipoCliente", "Usuario"}

FieldDefinition(name, field_type, name_in_db, is_mandatory, referenced_table_name) ==
    [name |-> name, field_type |-> field_type, name_in_db |-> Str(name_in_db),
     is_mandatory |-> is_mandatory,
     referenced_table_name |-> IF referenced_table_name = "" THEN None
                               ELSE Str(referenced_table_name)]

\* dict.get() found nothing: the field definition is None.
NoFieldDefinition ==
    [name |-> "", field_type |-> "NoneType", name_in_db |-> None,
     is_mandatory |-> FALSE, referenced_table_name |-> None]

get_model_dict(entity_type) ==
    CASE entity_type = "Cliente" ->
           << FieldDefinition("cliente_id", "int", "id", TRUE, ""),
              FieldDefinition("codigo", "str", "codigo", TRUE, ""),
              FieldDefinition("tipo_cliente", "TipoCliente", "tipoclienteid", TRUE,
                              "tiposcliente"),
              FieldDefinition("usuario_creacion", "Usuario", "usuariocreacionid", FALSE,
                              "usuarios") >>
      [] entity_type = "TipoCliente" ->
           << FieldDefinition("tipo_cliente_id", "int", "id", TRUE, ""),
              FieldDefinition("codigo", "str", "codigo", TRUE, ""),
              FieldDefinition("usuario_creacion", "Usuario", "usuariocreacionid", FALSE,
                              "usuarios") >>
      [] entity_type = "Usuario" ->
           << FieldDefinition("usuario_id", "int", "id", TRUE, ""),
              FieldDefinition("username", "str", "username", TRUE, "") >>

get_id_field_name(entity_type) ==
    CASE entity_type = "Cliente" -> "cliente_id"
      [] entity_type = "TipoCliente" -> "tipo_cliente_id"
      [] entity_type = "Usuario" -> "usuario_id"

\* model_dict.get(val)
Get(model_dict, val) ==
    IF \E i \in DOMAIN model_dict : Str(model_dict[i].name) = val
    THEN model_dict[CHOOSE i \in DOMAIN model_dict : Str(model_dict[i].name) = val]
    ELSE NoFieldDefinition

get_id_field_name_in_db(entity_type) ==
    Get(get_model_dict(entity_type), Str(get_id_field_name(entity_type))).name_in_db

\* issubclass(field_type, BaseEntity)
IsBaseEntity(field_type) == field_type \in EntityTypes

\* The clause classes of core/dao/querytools.py. A clause object carries the
\* attributes of its class; the others stay None.
ClauseTypes == {"FieldClause", "FilterClause", "OrderByClause", "GroupByClause",
                "JoinClause"}

Clause(kind, path, table_alias, field_alias, parent_table, id_column_name, parent_table_referenced_column_name) ==
    [kind |-> kind,
     field_name |-> IF kind = "JoinClause" THEN None ELSE path,
     table_name |-> IF kind = "JoinClause" THEN path ELSE None,
     table_alias |-> table_alias,
     field_alias |-> field_alias,
     parent_table |-> parent_table,
     id_column_name |-> id_column_name,
     parent_table_referenced_column_name |-> parent_table_referenced_column_name]

\* A slot of the heap holding no object.
NoObject == [kind |-> "none"]

NoException == [type |-> "none", key |-> "", args |-> << >>]

\* CustomException(translate(key, None, *args))
CustomException(key, args) == [type |-> "CustomException", key |-> key, args |-> args]

\* An exception of the interpreter that nothing wraps.
AttributeError == [type |-> "AttributeError", key |-> "", args |-> << >>]

\* d[k] = v, k in d and d[k] for the dictionaries of a translation, kept as
\* sets of <<key, value>> with one pair per key.
DictPut(d, k, v) == {e \in d : e[1] # k} \cup {<<k, v>>}
DictHas(d, k) == \E e \in d : e[1] = k
DictGet(d, k) == (CHOOSE e \in d : e[1] = k)[2]

\* field_name_array[0:-1]
AllButLast_whole(arr) == arr
AllButLast(arr) == SubSeq(arr, 1, Len(arr) - 1)

TableAlias_computed(new_clause, computed) == computed
\* new_clause.table_alias if new_clause.table_alias is not None else <computed>
\* (mysqldaotools.py:334, 362 and 377): the caller's table alias wins.
TableAlias(new_clause, computed) ==
    IF new_clause.table_alias # None THEN new_clause.table_alias ELSE computed

WalkLookup_noscan(field_definition, val) == field_definition
\* field_definition.field_type.get_model_dict().get(val)
WalkLookup(field_definition, val) ==
    Get(get_model_dict(field_definition.field_type), val)

\* for idx, val in enumerate(field_name_array), from index idx on
\* (mysqldaotools.py:300-350). st holds field_definition, new_table_alias,
\* entity_type, new_clause, join_parent_table_dict and the exception raised.
RECURSIVE WalkSegments(_, _, _, _, _)
WalkSegments(st, idx, field_name_array, is_join_clause, base_entity_type) ==
    IF idx > Len(field_name_array) - 1 \/ st.raised # NoException THEN st
    ELSE
    LET val == PyIndex(field_name_array, idx)
        last_index == Len(field_name_array) - 1
        \* the branch that reads field_definition.field_type.get_model_dict()
        descends == \/ (idx > 0 /\ idx < last_index)
                    \/ (idx = last_index /\ is_join_clause)
        no_model_dict == descends /\ ~IsBaseEntity(st.field_definition.field_type)
        parent_table ==
            IF idx = last_index /\ is_join_clause /\ st.new_clause.parent_table = None
            THEN DictGet(st.join_parent_table_dict,
                         PyIndex(field_name_array, last_index - idx))
            ELSE st.new_clause.parent_table
        new_table_alias ==
            IF idx < last_index THEN st.new_table_alias
            ELSE TableAlias(st.new_clause,
                            Join(IF is_join_clause THEN field_name_array
                                 ELSE AllButLast(field_name_array),
                                 join_alias_separator))
        enters_entity == /\ idx = last_index
                         /\ ~is_join_clause
                         /\ IsBaseEntity(st.field_definition.field_type)
        entity_type == IF enters_entity THEN st.field_definition.field_type
                       ELSE st.entity_type
        field_definition ==
            IF idx = 0 THEN Get(get_model_dict(base_entity_type), val)
            ELSE IF descends \/ enters_entity THEN WalkLookup(st.field_definition, val)
            ELSE st.field_definition
    IN  IF no_model_dict
        THEN [st EXCEPT !.raised = AttributeError]
        ELSE IF field_definition = NoFieldDefinition
        THEN [st EXCEPT !.raised = CustomException("i18n_base_commonError_unknown_field",
                                       <<val, PyIndex(field_name_array, idx - 1)>>),
                        !.field_definition = field_definition,
                        !.new_table_alias = new_table_alias,
                        !.entity_type = entity_type,
                        !.new_clause = [@ EXCEPT !.parent_table = parent_table]]
        ELSE WalkSegments(
               [st EXCEPT !.field_definition = field_definition,
                          !.new_table_alias = new_table_alias,
                          !.entity_type = entity_type,
                          !.new_clause = [@ EXCEPT !.parent_table = parent_table],
                          !.join_parent_table_dict =
                              DictPut(@, val, field_definition.referenced_table_name)],
               idx + 1, field_name_array, is_join_clause, base_entity_type)

\* str(new_clause): the clause classes define no __str__, so the text names
\* the class of the object and nothing of its content.
ObjectStr(clause) == <<"<", clause.kind, " object>">>

\* The single-segment branch (mysqldaotools.py:351-368).
SingleSegment(st, f, is_join_clause, base_entity_type, table_name) ==
    LET field_definition ==
            Get(get_model_dict(base_entity_type),
                IF is_join_clause THEN f.table_name ELSE f.field_name)
    IN  IF is_join_clause
        THEN [st EXCEPT !.field_definition = field_definition,
                        !.new_clause = [@ EXCEPT !.parent_table =
                                           IF @ # None THEN @ ELSE table_name]]
        ELSE [st EXCEPT !.field_definition = field_definition,
                        !.new_table_alias = TableAlias(st.new_clause, table_name),
                        !.entity_type = base_entity_type,
                        !.raised = IF field_definition = NoFieldDefinition
                                   THEN CustomException(
                                          "i18n_base_commonError_unknown_field",
                                          <<f.field_name, Str(base_entity_type)>>)
                                   ELSE NoException]

\* The part for join clauses (mysqldaotools.py:370-391).
JoinPart(st, field_name_array) ==
    IF st.raised # NoException \/ st.field_definition = NoFieldDefinition THEN st
    ELSE
    LET with_table == [st.new_clause EXCEPT
                          !.table_name = st.field_definition.referenced_table_name]
        new_table_alias ==
            IF st.new_table_alias # None THEN st.new_table_alias
            ELSE TableAlias(with_table, PyIndex(field_name_array, -1))
        no_id_column == /\ with_table.id_column_name = None
                        /\ ~IsBaseEntity(st.field_definition.field_type)
        with_id == [with_table EXCEPT !.id_column_name =
                       IF @ # None THEN @
                       ELSE get_id_field_name_in_db(st.field_definition.field_type)]
    IN  IF no_id_column
        THEN [st EXCEPT !.new_clause = with_table,
                        !.new_table_alias = new_table_alias,
                        !.raised = CustomException(
                                     "i18n_base_commonError_query_translate",
                                     <<ObjectStr(with_table)>>)]
        ELSE [st EXCEPT !.new_table_alias = new_table_alias,
                        !.new_clause =
                            [with_id EXCEPT !.parent_table_referenced_column_name =
                                IF @ # None THEN @ ELSE st.field_definition.name_in_db]]

\* The field alias of a translated FieldClause (mysqldaotools.py:413-415): it
\* is always computed from the table alias and the last segment, whatever the
\* clause carried.
FieldAlias(new_clause, field_name_array) ==
    Join(Split(new_clause.table_alias, DOT), field_alias_separator)
        \o <<field_alias_separator>> \o PyIndex(field_name_array, -1)

DeepCopy_alias(objects, id) == id
\* copy.deepcopy(f): the identity of a new object, equal to f attribute by
\* attribute.
DeepCopy(objects, id) == CHOOSE n \in DOMAIN objects :
                             /\ objects[n] = NoObject
                             /\ \A m \in DOMAIN objects : objects[m] = NoObject => n <= m

\* The segments of the path of a clause (mysqldaotools.py:292).
FieldNameArray(type, new_clause) ==
    Split(IF type = "JoinClause" THEN new_clause.table_name ELSE new_clause.field_name,
          DOT)

\* The locals of an iteration before the path is walked (mysqldaotools.py:285-290).
IterationStart(new_clause) ==
    [field_definition |-> NoFieldDefinition, new_table_alias |-> None,
     entity_type |-> "NoneType", new_clause |-> new_clause,
     join_parent_table_dict |-> {}, raised |-> NoException]

\* if field_name_array_last_index > 0: ... else: ... (mysqldaotools.py:297-368)
Walked(type, f, new_clause, base_entity_type, table_name, field_name_array) ==
    IF Len(field_name_array) - 1 > 0
    THEN WalkSegments(IterationStart(new_clause), 0, field_name_array,
                      type = "JoinClause", base_entity_type)
    ELSE SingleSegment(IterationStart(new_clause), f, type = "JoinClause",
                       base_entity_type, table_name)

\* if is_join_clause and field_definition is not None (mysqldaotools.py:370-391)
Joined(type, st, field_name_array) ==
    IF type = "JoinClause" THEN JoinPart(st, field_name_array) ELSE st

\* The check before the clause is rewritten (mysqldaotools.py:393-396).
Missing(type, st) ==
    \/ st.field_definition = NoFieldDefinition
    \/ st.new_table_alias = None
    \/ (type = "FieldClause" /\ st.entity_type = "NoneType")

\* new_clause.field_name and new_clause.table_alias (mysqldaotools.py:398-402)
Renamed(st) ==
    [st.new_clause EXCEPT !.field_name = st.field_definition.name_in_db,
                          !.table_alias = st.new_table_alias]

\* new_clause.field_alias (mysqldaotools.py:410-415)
Aliased(type, renamed, field_name_array) ==
    IF type = "FieldClause"
    THEN [renamed EXCEPT !.field_alias = FieldAlias(renamed, field_name_array)]
    ELSE renamed

RecordAlias_overwrite(alias_dict, table_name, table_alias) ==
    DictPut(alias_dict, table_name, table_alias)
\* if new_clause.table_name not in join_alias_dict:
\*     join_alias_dict[new_clause.table_name] = new_clause.table_alias
\* (mysqldaotools.py:407-408)
RecordAlias(alias_dict, table_name, table_alias) ==
    IF ~DictHas(alias_dict, table_name)
    THEN DictPut(alias_dict, table_name, table_alias)
    ELSE alias_dict

\* The two dictionaries after the clause is rewritten (mysqldaotools.py:404-425).
Recorded(type, st, aliased, field_name_array, alias_dict, alias_map) ==
    [raised |-> NoException,
     new_clause |-> aliased,
     join_alias_dict |->
         IF type = "JoinClause"
         THEN RecordAlias(alias_dict, aliased.table_name, aliased.table_alias)
         ELSE alias_dict,
     join_alias_table_name |->
         IF type = "FieldClause"
         THEN DictPut(alias_map, aliased.field_alias,
                      << aliased.field_name,
                         IF Len(field_name_array) - 1 > 0
                         THEN Join(AllButLast(field_name_array), DOT)
                         ELSE None,
                         st.entity_type >>)
         ELSE alias_map]

\* The end of an iteration, from the locals st the walk and the join part
\* left (mysqldaotools.py:393-428).
Rewritten(type, st, field_name_array, alias_dict, alias_map) ==
    IF st.raised # NoException
    THEN [raised |-> st.raised, new_clause |-> st.new_clause,
          join_alias_dict |-> alias_dict, join_alias_table_name |-> alias_map]
    ELSE IF Missing(type, st)
    THEN [raised |-> CustomException("i18n_base_commonError_query_translate",
                                     <<ObjectStr(st.new_clause)>>),
          new_clause |-> st.new_clause,
          join_alias_dict |-> alias_dict, join_alias_table_name |-> alias_map]
    ELSE Recorded(type, st, Aliased(type, Renamed(st), field_name_array),
                  field_name_array, alias_dict, alias_map)

\* One iteration of "for f in clauses_list" (mysqldaotools.py:281-428) on the
\* copy new_clause of f. The result holds the exception raised, if any, the
\* copy as the iteration left it, and the two dictionaries.
TranslateClause(type, f, new_clause, base_entity_type, table_name, alias_dict, alias_map) ==
    Rewritten(type,
              Joined(type,
                     Walked(type, f, new_clause, base_entity_type, table_name,
                            FieldNameArray(type, new_clause)),
                     FieldNameArray(type, new_clause)),
              FieldNameArray(type, new_clause), alias_dict, alias_map)

\* The entity type and the tables the translator is called with. A DAO is
\* built with any table name (basedao.py:79); the second one is also the name
\* of a relation of the entity.
BaseEntityType == "Cliente"
TableNames == {Str("clientes"), Str("tipo_cliente")}

\* Bound on the length of a clause list.
MaxClauses == 2

\* "a.b.c"
Path(segments) == Join([i \in DOMAIN segments |-> Str(segments[i])], DOT)

\* The logical paths put to the translator: existing scalars and relations at
\* one, two and three segments, a segment unknown to its entity in first,
\* middle and last position, and a scalar before the last segment.
Paths ==
    { Path(<<"codigo">>),
      Path(<<"username">>),
      Path(<<"tipo_cliente">>),
      Path(<<"tipo_cliente", "codigo">>),
      Path(<<"tipo_cliente", "username">>),
      Path(<<"username", "codigo">>),
      Path(<<"codigo", "codigo">>),
      Path(<<"usuario_creacion", "username">>),
      Path(<<"tipo_cliente", "usuario_creacion">>),
      Path(<<"tipo_cliente", "usuario_creacion", "username">>),
      Path(<<"tipo_cliente", "username", "username">>),
      Path(<<"tipo_cliente", "codigo", "username">>) }

\* A clause as a caller builds it: with every optional attribute left out, or
\* with every one supplied.
CallerClause(kind, path, explicit) ==
    IF explicit
    THEN Clause(kind, path, Str("t1"),
                IF kind = "FieldClause" THEN Str("fa") ELSE None,
                IF kind = "JoinClause" THEN Str("p1") ELSE None,
                IF kind = "JoinClause" THEN Str("id") ELSE None,
                IF kind = "JoinClause" THEN Str("pcol") ELSE None)
    ELSE Clause(kind, path, None, None, None, None, None)

CallerClauses(kind) == { CallerClause(kind, p, e) : p \in Paths, e \in BOOLEAN }

\* The lists of one to MaxClauses clauses of one class.
ClauseLists(kind) ==
    UNION { [1..n -> CallerClauses(kind)] : n \in 1..MaxClauses }

ObjectIds == 1..(2 * MaxClauses)

\* The heap right after the caller built its list: its clauses, in order.
CallerHeap(clauses) ==
    [id \in ObjectIds |-> IF id <= Len(clauses) THEN clauses[id] ELSE NoObject]

\* clauses_translated.append(new_clause), or the exception leaves the loop
\* (mysqldaotools.py:428): the loop after the iteration on the copy new_clause.
Appended(loop, new_clause, done) ==
    [heap |-> [loop.heap EXCEPT ![new_clause] = done.new_clause],
     clauses_translated |->
         IF done.raised = NoException
         THEN Append(loop.clauses_translated, new_clause)
         ELSE loop.clauses_translated,
     join_alias_dict |-> done.join_alias_dict,
     join_alias_table_name |-> done.join_alias_table_name,
     raised |-> done.raised]

\* for f in clauses_list, from position i on (mysqldaotools.py:281-430). loop
\* holds the heap, clauses_translated, the two dictionaries and the exception.
RECURSIVE TranslateFrom(_, _, _, _, _)
TranslateFrom(loop, i, type, ids, table_name) ==
    IF i > Len(ids) \/ loop.raised # NoException THEN loop
    ELSE TranslateFrom(
           Appended(loop, DeepCopy(loop.heap, ids[i]),
                    TranslateClause(type, loop.heap[ids[i]], loop.heap[ids[i]],
                                    BaseEntityType, table_name, loop.join_alias_dict,
                                    loop.join_alias_table_name)),
           i + 1, type, ids, table_name)

\* The state a translation starts in.
NewLoop(objects) ==
    [heap |-> objects, clauses_translated |-> << >>, join_alias_dict |-> {},
     join_alias_table_name |-> {}, raised |-> NoException]

\* resolve_translation_of_joins, after the list is translated
\* (mysqldaotools.py:240-242): a parent table that was itself joined is
\* replaced by the alias it was joined under.
ResolveParents(loop) ==
    [loop EXCEPT !.heap =
        [id \in DOMAIN loop.heap |->
            IF /\ \E i \in DOMAIN loop.clauses_translated : loop.clauses_translated[i] = id
               /\ DictHas(loop.join_alias_dict, loop.heap[id].parent_table)
            THEN [loop.heap[id] EXCEPT !.parent_table =
                                    DictGet(loop.join_alias_dict, @)]
            ELSE loop.heap[id]]]

\* The fix-up is reached when the translation raised nothing.
ParentsResolved(loop) ==
    IF loop.raised = NoException THEN ResolveParents(loop) ELSE loop

\* What the caller of a translation holds afterwards: the translated clauses
\* and the alias map, or the exception.
Output ==
    IF tr_pc = "returned"
    THEN [raised |-> NoException,
          clauses |-> [i \in DOMAIN clauses_translated |-> heap[clauses_translated[i]]],
          alias_map |-> join_alias_table_name]
    ELSE [raised |-> raised, clauses |-> << >>, alias_map |-> {}]

\* The caller's clause objects as they are now.
CallerObjects == [i \in DOMAIN clauses_list |-> heap[clauses_list[i]]]

TranslatorInit ==
    /\ clause_type \in ClauseTypes
    /\ table_db_name \in TableNames
    /\ given \in ClauseLists(clause_type)
    /\ heap = CallerHeap(given)
    /\ clauses_list = [i \in DOMAIN given |-> i]
    /\ clauses_translated = << >>
    /\ join_alias_table_name = {}
    /\ join_alias_dict = {}
    /\ raised = NoException
    /\ tr_pc = "call"
    /\ round = 1
    /\ first_output = << >>
    /\ ConnectionInit
    /\ QueryIdle
    /\ BarrierIdle

\* The end of a call: the function returned its list or raised.
Finish(loop) ==
    /\ heap' = loop.heap
    /\ clauses_translated' = loop.clauses_translated
    /\ join_alias_dict' = loop.join_alias_dict
    /\ join_alias_table_name' = loop.join_alias_table_name
    /\ raised' = loop.raised
    /\ tr_pc' = IF loop.raised = NoException THEN "returned" ELSE "raised"
    /\ UNCHANGED <<clause_type, table_db_name, clauses_list, given, round, first_output>>
    /\ UNCHANGED tr_rest

\* resolve_translation_of_clauses(clause_type, clauses_list, ...) for fields,
\* filters, order by and group by.
resolve_translation_of_clauses ==
    /\ tr_pc = "call"
    /\ clause_type # "JoinClause"
    /\ Finish(TranslateFrom(NewLoop(heap), 1, clause_type, clauses_list, table_db_name))

\* resolve_translation_of_joins(clauses_list, ...)
resolve_translation_of_joins ==
    /\ tr_pc = "call"
    /\ clause_type = "JoinClause"
    /\ Finish(ParentsResolved(TranslateFrom(NewLoop(heap), 1, clause_type,
                                            clauses_list, table_db_name)))

\* The caller hands the same list to the translator once more; the copies of
\* the first call are garbage by then.
TranslateAgain ==
    /\ tr_pc \in {"returned", "raised"}
    /\ round = 1
    /\ round' = 2
    /\ first_output' = Output
    /\ heap' = [id \in ObjectIds |-> IF id <= Len(clauses_list) THEN heap[id] ELSE NoObject]
    /\ clauses_translated' = << >>
    /\ join_alias_table_name' = {}
    /\ join_alias_dict' = {}
    /\ raised' = NoException
    /\ tr_pc' = "call"
    /\ UNCHANGED <<clause_type, table_db_name, clauses_list, given>>
    /\ UNCHANGED tr_rest

TranslatorNext ==
    \/ resolve_translation_of_clauses
    \/ resolve_translation_of_joins
    \/ TranslateAgain

TranslatorSpec == TranslatorInit /\ [][TranslatorNext]_<<tvars, tr_rest>>

----------------------------------------------------------------------------
\* Vocabulary of the claims about the translator.

\* The translation call has ended.
TranslationEnded == tr_pc \in {"returned", "raised"}

\* The logical path of a clause, segment by segment.
Segments(clause) ==
    Split(IF clause.kind = "JoinClause" THEN clause.table_name ELSE clause.field_name,
          DOT)

\* Following the segments of a path from position k on, with entity_type the
\* entity reached so far: the path is "resolved", or a segment is "unknown"
\* to the entity that should own it, or a segment before the last is a
\* "scalar" and the path cannot go on.
RECURSIVE Reach(_, _, _)
Reach(entity_type, segments, k) ==
    LET definition == Get(get_model_dict(entity_type), segments[k])
    IN  IF definition = NoFieldDefinition
        THEN [status |-> "unknown", pos |-> k, owner |-> entity_type]
        ELSE IF k = Len(segments)
        THEN [status |-> "resolved", pos |-> k, owner |-> entity_type]
        ELSE IF definition.referenced_table_name = None
        THEN [status |-> "scalar", pos |-> k, owner |-> entity_type]
        ELSE Reach(definition.field_type, segments, k + 1)

Reached(i) == Reach(BaseEntityType, Segments(given[i]), 1)

\* The clauses the loop got to: the translated ones and the one it raised on.
ClausesReached ==
    { i \in DOMAIN given : i <= Len(clauses_translated) + 1 }

\* The translated copy of the caller's i-th clause.
TranslatedClause(i) == heap[clauses_translated[i]]

\* The names by which a fault may name the owner of the segment at pos: the
\* entity type, or the relation through which that entity was reached.
OwnerNames(i) ==
    {Str(Reached(i).owner)} \cup
    (IF Reached(i).pos > 1 THEN {Segments(given[i])[Reached(i).pos - 1]} ELSE {})

\* C12: a segment that is not a logical field of the entity reached so far,
\* in any clause kind and at any position of the path, makes translation
\* raise a CustomException naming that segment and the entity owning it.
C12_UnknownSegmentNamed ==
    TranslationEnded =>
        \A i \in ClausesReached :
            Reached(i).status = "unknown" =>
                /\ tr_pc = "raised"
                /\ i = Len(clauses_translated) + 1
                /\ raised.type = "CustomException"
                /\ Len(raised.args) = 2
                /\ raised.args[1] = Segments(given[i])[Reached(i).pos]
                /\ raised.args[2] \in OwnerNames(i)

\* C13: in any clause kind, a dotted path with a scalar field before its last
\* segment makes translation raise a translation fault, and no translated
\* clause is produced for it.
C13_ScalarPrefixRaises ==
    TranslationEnded =>
        \A i \in ClausesReached :
            Reached(i).status = "scalar" =>
                /\ tr_pc = "raised"
                /\ i = Len(clauses_translated) + 1
                /\ raised.type = "CustomException"

\* C14: translation never changes the caller's clause objects, whether it
\* returns or raises, and translating the same list again gives the same
\* output.
C14_CallerClausesUntouched ==
    /\ CallerObjects = given
    /\ (round = 2 /\ TranslationEnded) => Output = first_output

\* A list of two joins was translated twice; the copies differ from the
\* caller's clauses, the second one by the alias of its parent as well.
C14_Witness ==
    /\ round = 2
    /\ tr_pc = "returned"
    /\ clause_type = "JoinClause"
    /\ Len(clauses_translated) = 2
    /\ TranslatedClause(1) # given[1]
    /\ TranslatedClause(2).parent_table = TranslatedClause(1).table_alias
    /\ TranslatedClause(2).parent_table # given[2].parent_table

\* C15 as claimed: every alias the caller supplied (table alias of any clause,
\* field alias of a FieldClause, alias of a JoinClause) is the alias of the
\* translated clause.
C15_ExplicitAliasesKept ==
    tr_pc = "returned" =>
        \A i \in DOMAIN clauses_translated :
            /\ given[i].table_alias # None =>
                   TranslatedClause(i).table_alias = given[i].table_alias
            /\ given[i].field_alias # None =>
                   TranslatedClause(i).field_alias = given[i].field_alias

\* C15 amended: the table alias the caller supplied is kept for every clause
\* kind, joins included; the field alias of a FieldClause is always the
\* generated one, never the one the caller supplied.
C15_TableAliasKeptFieldAliasGenerated ==
    tr_pc = "returned" =>
        \A i \in DOMAIN clauses_translated :
            /\ given[i].table_alias # None =>
                   TranslatedClause(i).table_alias = given[i].table_alias
            /\ clause_type = "FieldClause" =>
                   TranslatedClause(i).field_alias =
                       Join(Split(TranslatedClause(i).table_alias, DOT),
                            field_alias_separator)
                         \o <<field_alias_separator>>
                         \o Segments(given[i])[Len(Segments(given[i]))]

\* Two FieldClauses were translated, the first with the caller's aliases, the
\* second without any.
C15_Witness ==
    /\ tr_pc = "returned"
    /\ clause_type = "FieldClause"
    /\ Len(clauses_translated) = 2
    /\ given[1].table_alias # None /\ given[1].field_alias # None
    /\ given[2].table_alias = None /\ given[2].field_alias = None

\* C16: in one translation of FieldClauses without aliases from the caller,
\* clauses with distinct paths get distinct field aliases, and the alias map
\* has one entry per distinct path.
C16_GeneratedAliasesDistinct ==
    ( /\ tr_pc = "returned"
      /\ clause_type = "FieldClause"
      /\ \A i \in DOMAIN given : given[i].table_alias = None /\ given[i].field_alias = None )
    => /\ \A i, j \in DOMAIN clauses_translated :
              given[i].field_name # given[j].field_name =>
                  TranslatedClause(i).field_alias # TranslatedClause(j).field_alias
       /\ Cardinality(join_alias_table_name)
              = Cardinality({ given[i].field_name : i \in DOMAIN given })


\* ---------------------------------------------------------------------------
\* Field selection with "*": a select expands every FieldClause ending in "*"
\* before it hands the field list to resolve_translation_of_clauses. The
\* service layer builds such clauses (service.py:157-166) and passes them to
\* the select of the DAO (service.py:140).
\* ---------------------------------------------------------------------------
STAR == Str("*")

\* The entity a dotted prefix leads to from entity_type, "NoneType" when a
\* segment is not a relation.
RECURSIVE EntityAt(_, _)
EntityAt(entity_type, segments) ==
    IF segments = << >> THEN entity_type
    ELSE LET definition == Get(get_model_dict(entity_type), segments[1])
         IN  IF IsBaseEntity(definition.field_type)
             THEN EntityAt(definition.field_type, Tail(segments))
             ELSE "NoneType"

\* Some other clause of the list selects into the nested entity at path
\* relation: its path goes on after relation.
SelectsInto(fields, i, relation) ==
    \E j \in DOMAIN fields :
        /\ j # i
        /\ Len(Segments(fields[j])) > Len(relation)
        /\ SubSeq(Segments(fields[j]), 1, Len(relation)) = relation

\* The clauses that stand for fields[i]: the clause itself, or for a path
\* ending in "*" one clause per scalar field of the entity at the path and
\* one lazy-load placeholder (the path of the relation, which selects the
\* foreign key only) per relation that no other clause selects into.
ExpandClause(fields, i) ==
    LET segments == Segments(fields[i])
        prefix == AllButLast(segments)
        entity_type == EntityAt(BaseEntityType, prefix)
        Selected(definition) ==
            \/ ~IsBaseEntity(definition.field_type)
            \/ ~SelectsInto(fields, i, prefix \o <<Str(definition.name)>>)
        selected == SelectSeq(get_model_dict(entity_type), Selected)
    IN  IF segments[Len(segments)] # STAR \/ entity_type \notin EntityTypes
        THEN <<fields[i]>>
        ELSE [k \in DOMAIN selected |->
                 Clause("FieldClause",
                        Join(prefix \o <<Str(selected[k].name)>>, DOT),
                        fields[i].table_alias, None, None, None, None)]

\* The field list of a select after the expansion, from position i on.
RECURSIVE ExpandFields(_, _)
ExpandFields(fields, i) ==
    IF i > Len(fields) THEN << >>
    ELSE ExpandClause(fields, i) \o ExpandFields(fields, i + 1)

\* The field paths put to a select: "*" on the base entity and on nested
\* entities, deeper selections into a relation, a bare relation and a scalar.
SelectPaths ==
    { Path(<<"*">>),
      Path(<<"tipo_cliente", "*">>),
      Path(<<"usuario_creacion", "*">>),
      Path(<<"tipo_cliente", "usuario_creacion", "*">>),
      Path(<<"codigo", "*">>),
      Path(<<"codigo">>),
      Path(<<"tipo_cliente", "codigo">>),
      Path(<<"tipo_cliente", "usuario_creacion">>),
      Path(<<"tipo_cliente", "usuario_creacion", "username">>) }

SelectFieldLists ==
    UNION { [1..n -> { CallerClause("FieldClause", p, FALSE) : p \in SelectPaths }] :
            n \in 1..MaxClauses }

SelectFieldsInit ==
    /\ clause_type = "FieldClause"
    /\ table_db_name \in TableNames
    /\ given \in SelectFieldLists
    /\ heap = CallerHeap(given)
    /\ clauses_list = [i \in DOMAIN given |-> i]
    /\ clauses_translated = << >>
    /\ join_alias_table_name = {}
    /\ join_alias_dict = {}
    /\ raised = NoException
    /\ tr_pc = "select"
    /\ round = 1
    /\ first_output = << >>
    /\ ConnectionInit
    /\ QueryIdle
    /\ BarrierIdle

\* The select expands its field list; the expanded clauses are new objects
\* after the caller's, and the translation that follows copies each of them.
select_fields ==
    /\ tr_pc = "select"
    /\ LET expanded == ExpandFields(given, 1)
           first == Len(given)
       IN  /\ heap' = [id \in 1..(first + 2 * Len(expanded)) |->
                          IF id <= first THEN heap[id]
                          ELSE IF id <= first + Len(expanded) THEN expanded[id - first]
                          ELSE NoObject]
           /\ clauses_list' = [i \in DOMAIN expanded |-> first + i]
    /\ tr_pc' = "call"
    /\ UNCHANGED <<clause_type, table_db_name, given, clauses_translated,
                   join_alias_table_name, join_alias_dict, raised, round, first_output>>
    /\ UNCHANGED tr_rest

SelectFieldsNext ==
    \/ select_fields
    \/ resolve_translation_of_clauses

SelectFieldsSpec == SelectFieldsInit /\ [][SelectFieldsNext]_<<tvars, tr_rest>>

\* The positions of the translated list that stand for the logical path.
TranslationsOf(segments) ==
    { i \in DOMAIN clauses_translated : Segments(heap[clauses_list[i]]) = segments }

\* The table alias of the fields of the entity at a dotted prefix.
AliasOfPrefix(prefix) ==
    IF prefix = << >> THEN table_db_name ELSE Join(prefix, join_alias_separator)

\* The field list is [a.*, a.b.c]: b is a relation of the entity at a, c a
\* scalar field of the entity of b; a may be the base entity itself.
DeepSelectionBesideStar ==
    /\ Len(given) = 2
    /\ LET star == Segments(given[1])
           deep == Segments(given[2])
           a == AllButLast(star)
       IN  /\ star[Len(star)] = STAR
           /\ EntityAt(BaseEntityType, a) \in EntityTypes
           /\ Len(deep) = Len(a) + 2
           /\ SubSeq(deep, 1, Len(a)) = a
           /\ EntityAt(BaseEntityType, SubSeq(deep, 1, Len(a) + 1)) \in EntityTypes
           /\ LET definition == Get(get_model_dict(
                                      EntityAt(BaseEntityType, SubSeq(deep, 1, Len(a) + 1))),
                                    deep[Len(deep)])
              IN  /\ definition # NoFieldDefinition
                  /\ ~IsBaseEntity(definition.field_type)

PyNone == [kind |-> "None"]
PyList(items) == [kind |-> "list", items |-> items]
\* A variable no statement has assigned yet.
Unset == [kind |-> "unset"]

\* The truth value of an object in "if x:" and "x and ...".
Truthy(value) == value.kind = "list" /\ value.items # << >>

KeyError == [type |-> "KeyError", key |-> "", args |-> << >>]
TypeError == [type |-> "TypeError", key |-> "", args |-> << >>]
\* pymysql.Error, raised by cursor.execute
PymysqlError == [type |-> "pymysql.Error", key |-> "", args |-> << >>]

\* Bound on the number of rows inserted.
MaxRows == 2

DaoTable == Str("clientes")

Codigos == {"a", "b"}

\* The entities handed to insert: no identifier yet, every relation set.
NewEntities ==
    { [cliente_id |-> PyNone, codigo |-> c,
       tipo_cliente |-> [tipo_cliente_id |-> 1],
       usuario_creacion |-> [usuario_id |-> 1]] : c \in Codigos }

\* getattr(entity, key), with the identifier of the nested entity for a
\* relation (modeldefinition.py:163-169).
FieldValue(entity, definition) ==
    IF IsBaseEntity(definition.field_type)
    THEN entity[definition.name][get_id_field_name(definition.field_type)]
    ELSE entity[definition.name]

\* The row "insert into table (names) values (null, values)" stores: the
\* columns are get_field_names_as_str(), the identifier is the one the
\* database generates.
InsertedRow(entity, lastrowid) ==
    LET model_dict == get_model_dict(BaseEntityType)
    IN  { << model_dict[k].name_in_db,
             IF model_dict[k].name = get_id_field_name(BaseEntityType)
             THEN lastrowid
             ELSE FieldValue(entity, model_dict[k]) >> : k \in DOMAIN model_dict }

\* A clause of a query built with no table alias and no parent table; the
\* constructor of JoinClause gives id_column_name the default "id"
\* (querytools.py:215-216).
QueryClause(kind, path, object_to_compare) ==
    [kind |-> kind,
     field_name |-> IF kind = "JoinClause" THEN None ELSE path,
     table_name |-> IF kind = "JoinClause" THEN path ELSE None,
     table_alias |-> None,
     parent_table |-> None,
     id_column_name |-> IF kind = "JoinClause" THEN Str("id") ELSE None,
     parent_table_referenced_column_name |-> None,
     object_to_compare |-> object_to_compare]

\* ''.join(parts): the parts one after the other.
RECURSIVE Concat(_)
Concat(parts) ==
    IF parts = << >> THEN << >> ELSE parts[1] \o Concat(Tail(parts))

\* join_parent_table_dict[val] = field_definition.referenced_table_name
\* (basedao.py:349), after the lookup of a segment gave definition.
DaoSegmentDone(st, definition, val) ==
    IF definition = NoFieldDefinition
    THEN [st EXCEPT !.raised = AttributeError]
    ELSE [st EXCEPT !.field_definition = definition,
                    !.join_parent_table_dict =
                        DictPut(@, val, definition.referenced_table_name)]

\* The last segment of a dotted path (basedao.py:332-346).
DaoLastSegment(st, idx, val, field_name_array, is_join_clause) ==
    IF is_join_clause /\ idx # 1
       /\ ~DictHas(st.join_parent_table_dict, PyIndex(field_name_array, -1))
    THEN [st EXCEPT !.raised = KeyError]
    ELSE DaoSegmentDone(
           [st EXCEPT !.new_clause.parent_table =
                          IF ~is_join_clause THEN @
                          ELSE IF idx = 1 THEN DaoTable
                          ELSE DictGet(st.join_parent_table_dict,
                                       PyIndex(field_name_array, -1)),
                      !.new_table_alias =
                          TableAlias(st.new_clause,
                                     Concat(IF is_join_clause THEN field_name_array
                                            ELSE AllButLast(field_name_array))),
                      !.entity_type =
                          IF IsBaseEntity(st.field_definition.field_type)
                          THEN st.field_definition.field_type ELSE @],
           IF IsBaseEntity(st.field_definition.field_type)
           THEN Get(get_model_dict(st.field_definition.field_type), val)
           ELSE st.field_definition,
           val)

\* for idx, val in enumerate(field_name_array), from index idx on
\* (basedao.py:320-349).
RECURSIVE DaoWalk(_, _, _, _)
DaoWalk(st, idx, field_name_array, is_join_clause) ==
    IF idx > Len(field_name_array) - 1 \/ st.raised # NoException THEN st
    ELSE DaoWalk(
           IF idx = 0
           THEN DaoSegmentDone(st, Get(get_model_dict(BaseEntityType),
                                       PyIndex(field_name_array, idx)),
                               PyIndex(field_name_array, idx))
           ELSE IF idx < Len(field_name_array) - 1
           THEN IF ~IsBaseEntity(st.field_definition.field_type)
                THEN [st EXCEPT !.raised = AttributeError]
                ELSE DaoSegmentDone(st, Get(get_model_dict(st.field_definition.field_type),
                                            PyIndex(field_name_array, idx)),
                                    PyIndex(field_name_array, idx))
           ELSE DaoLastSegment(st, idx, PyIndex(field_name_array, idx),
                               field_name_array, is_join_clause),
           idx + 1, field_name_array, is_join_clause)

\* A path of one segment (basedao.py:350-361).
DaoSingleSegment(st, f, is_join_clause) ==
    IF is_join_clause
    THEN [st EXCEPT !.field_definition =
                        Get(get_model_dict(BaseEntityType), f.table_name),
                    !.new_clause.parent_table = IF @ # None THEN @ ELSE DaoTable]
    ELSE [st EXCEPT !.field_definition =
                        Get(get_model_dict(BaseEntityType), f.field_name),
                    !.new_table_alias = TableAlias(st.new_clause, DaoTable),
                    !.entity_type = BaseEntityType]

\* The part for joins (basedao.py:364-383); the identifier column is the
\* logical name get_id_field_name() gives.
DaoJoinPart(st) ==
    IF st.raised # NoException \/ st.field_definition = NoFieldDefinition THEN st
    ELSE IF st.new_clause.id_column_name = None
            /\ ~IsBaseEntity(st.field_definition.field_type)
    THEN [st EXCEPT !.raised = CustomException("i18n_base_commonError_query_translate",
                                               <<ObjectStr(st.new_clause)>>)]
    ELSE [st EXCEPT !.new_clause.table_name = st.field_definition.referenced_table_name,
                    !.new_table_alias =
                        IF st.new_clause.table_alias # None THEN st.new_clause.table_alias
                        ELSE st.field_definition.referenced_table_name,
                    !.new_clause.id_column_name =
                        IF @ # None THEN @
                        ELSE Str(get_id_field_name(st.field_definition.field_type)),
                    !.new_clause.parent_table_referenced_column_name =
                        IF @ # None THEN @ ELSE st.field_definition.name_in_db]

\* The end of an iteration (basedao.py:385-404): the check, the rewritten
\* clause and, for every class but the joins, the entry of the alias
\* dictionary under "<last index>.<table alias>.<last segment>".
DaoRewritten(st, field_name_array, is_join_clause, alias_map) ==
    IF st.raised # NoException
    THEN [raised |-> st.raised, new_clause |-> st.new_clause, alias_map |-> alias_map]
    ELSE IF \/ st.field_definition = NoFieldDefinition
            \/ st.new_table_alias = None
            \/ (~is_join_clause /\ st.entity_type = "NoneType")
    THEN [raised |-> CustomException("i18n_base_commonError_query_translate",
                                     <<ObjectStr(st.new_clause)>>),
          new_clause |-> st.new_clause, alias_map |-> alias_map]
    ELSE [raised |-> NoException,
          new_clause |-> [st.new_clause EXCEPT
                             !.field_name = st.field_definition.name_in_db,
                             !.table_alias = st.new_table_alias],
          alias_map |->
              IF is_join_clause THEN alias_map
              ELSE DictPut(alias_map,
                           << Len(field_name_array) - 1, st.new_table_alias,
                              PyIndex(field_name_array, -1) >>,
                           << st.entity_type, st.field_definition.name_in_db,
                              IF Len(field_name_array) - 1 > 0
                              THEN Join(AllButLast(field_name_array), DOT)
                              ELSE None >>)]

\* One iteration of the loop of BaseDao.__resolve_translation_of_clauses
\* (basedao.py:311-406) on a copy of f.
DaoTranslateClause(f, field_name_array, is_join_clause, alias_map) ==
    DaoRewritten(
        IF is_join_clause
        THEN DaoJoinPart(IF Len(field_name_array) - 1 > 0
                         THEN DaoWalk(IterationStart(f), 0, field_name_array, TRUE)
                         ELSE DaoSingleSegment(IterationStart(f), f, TRUE))
        ELSE IF Len(field_name_array) - 1 > 0
        THEN DaoWalk(IterationStart(f), 0, field_name_array, FALSE)
        ELSE DaoSingleSegment(IterationStart(f), f, FALSE),
        field_name_array, is_join_clause, alias_map)

\* clauses_translated.append(new_clause), or the exception leaves the loop.
DaoAppended(acc, done) ==
    [clauses |-> IF done.raised = NoException
                 THEN Append(acc.clauses, done.new_clause) ELSE acc.clauses,
     alias_map |-> done.alias_map,
     raised |-> done.raised]

\* for f in clauses_list, from position i on.
RECURSIVE BaseDao_resolve_translation_of_clauses(_, _, _, _)
BaseDao_resolve_translation_of_clauses(acc, i, clause_kind, clauses) ==
    IF i > Len(clauses) \/ acc.raised # NoException THEN acc
    ELSE BaseDao_resolve_translation_of_clauses(
           DaoAppended(acc,
                       DaoTranslateClause(clauses[i],
                                          FieldNameArray(clause_kind, clauses[i]),
                                          clause_kind = "JoinClause", acc.alias_map)),
           i + 1, clause_kind, clauses)

\* "if fields and len(fields) > 0: fields_translated = ..." for one of the
\* five arguments (basedao.py:471-489): tr holds the translated lists so far,
\* the alias dictionary and the exception that left the function, if any.
TranslatedArgument(tr, name, clause_kind, argument, done) ==
    IF tr.raised # NoException \/ ~Truthy(argument) THEN tr
    ELSE [tr EXCEPT ![name] = IF done.raised = NoException
                              THEN PyList(done.clauses) ELSE @,
                    !.join_alias_table_name = done.alias_map,
                    !.raised = done.raised]

TranslateArgument(tr, name, clause_kind, argument) ==
    TranslatedArgument(tr, name, clause_kind, argument,
        IF tr.raised # NoException \/ ~Truthy(argument) THEN << >>
        ELSE BaseDao_resolve_translation_of_clauses(
                 [clauses |-> << >>, alias_map |-> tr.join_alias_table_name,
                  raised |-> NoException],
                 1, clause_kind, argument.items))

\* The five translations of find_by_filtered_query, in the order of the code.
TranslateArguments(q) ==
    TranslateArgument(
      TranslateArgument(
        TranslateArgument(
          TranslateArgument(
            TranslateArgument(
              [fields |-> PyNone, filters |-> PyNone, order_by |-> PyNone,
               group_by |-> PyNone, joins |-> PyNone,
               join_alias_table_name |-> {}, raised |-> NoException],
              "fields", "FieldClause", q.fields),
            "filters", "FilterClause", q.filters),
          "order_by", "OrderByClause", q.order_by),
        "group_by", "GroupByClause", q.group_by),
      "joins", "JoinClause", q.joins)

\* Where find_by_filtered_query goes on after the translations: an exception
\* leaves the function.
TranslationEnds_ignored(tr) == "translated"
TranslationEnds(tr) == IF tr.raised = NoException THEN "translated" ELSE "raised"

\* The pieces of the statement __find_by_filtered_query_internal renders
\* (basedao.py:554-615): "*" without fields, else alias.column per field.
RenderedColumns(clauses) ==
    IF Truthy(clauses)
    THEN [i \in DOMAIN clauses.items |->
             <<clauses.items[i].table_alias, clauses.items[i].field_name>>]
    ELSE << >>

Rendered(tr) ==
    [op |-> "SELECT",
     select |-> IF Truthy(tr.fields) THEN RenderedColumns(tr.fields) ELSE <<STAR>>,
     from |-> DaoTable,
     join |-> IF Truthy(tr.joins)
              THEN [i \in DOMAIN tr.joins.items |->
                       <<tr.joins.items[i].table_name, tr.joins.items[i].table_alias,
                         tr.joins.items[i].parent_table>>]
              ELSE << >>,
     filtro |-> IF Truthy(tr.filters)
                THEN [i \in DOMAIN tr.filters.items |->
                         <<tr.filters.items[i].table_alias, tr.filters.items[i].field_name,
                           tr.filters.items[i].object_to_compare>>]
                ELSE << >>,
     group |-> RenderedColumns(tr.group_by),
     orden |-> RenderedColumns(tr.order_by)]

\* d[k] of a row; a row is a dictionary from column name to value.
Columns(row) == { e[1] : e \in row }

\* The database: a condition "alias.column = value" of the WHERE on a row of
\* the main table.
Satisfies(row, condition) ==
    /\ condition[1] = DaoTable
    /\ DictHas(row, condition[2])
    /\ DictGet(row, condition[2]) = condition[3]

\* The rows of the main table a SELECT gives, in table order, each with the
\* selected columns of the main table under their column names (DictCursor).
SelectedRows(statement, rows) ==
    LET Matches(row) == \A i \in DOMAIN statement.filtro : Satisfies(row, statement.filtro[i])
        matching == SelectSeq(rows, Matches)
    IN  [i \in DOMAIN matching |->
            IF statement.select = <<STAR>> THEN matching[i]
            ELSE { e \in matching[i] :
                     \E k \in DOMAIN statement.select :
                        statement.select[k] = <<DaoTable, e[1]>> }]

\* cursor.fetchall(): the rows, and for no rows an empty sequence or no value.
FetchAll(selected) ==
    IF selected = << >> THEN {PyList(<< >>), PyNone} ELSE {PyList(selected)}

\* cls(**d) (modeldefinition.py:46): the keys of d are the arguments of the
\* constructor, whose parameters are the logical fields; the mandatory ones
\* have no default.
Constructed(entity_type, d) ==
    LET model_dict == get_model_dict(entity_type)
        parameters == { Str(model_dict[k].name) : k \in DOMAIN model_dict }
        required == { Str(model_dict[k].name) :
                        k \in { j \in DOMAIN model_dict : model_dict[j].is_mandatory } }
    IN  IF Columns(d) \subseteq parameters /\ required \subseteq Columns(d)
        THEN [raised |-> NoException,
              entity |-> [k \in DOMAIN model_dict |->
                             IF DictHas(d, Str(model_dict[k].name))
                             THEN DictGet(d, Str(model_dict[k].name)) ELSE PyNone]]
        ELSE [raised |-> TypeError, entity |-> PyNone]

\* The keys of join_alias_table_name_ordered (basedao.py:491-502): the key of
\* the alias dictionary without its first token, "<table alias>.<last segment>".
OrderedKeys(alias_map) == { e[1][2] \o <<DOT>> \o e[1][3] : e \in alias_map }

\* The loop over join_alias_table_name_ordered for a row v (basedao.py:522-532):
\* the first key found in the row leads to w[0](), a call of the constructor
\* of an entity class without arguments, which every entity class of
\* impl/model refuses; no key found leaves the row as it is.
Rehydrated(v, alias_map) ==
    [raised |-> IF OrderedKeys(alias_map) \cap Columns(v) # {} THEN TypeError
                ELSE NoException,
     row |-> v]

\* The body of "for v in result_as_dict" (basedao.py:519-534): the loop above,
\* then convert_dict_to_entity(v).
ConvertedRow(v, alias_map) ==
    IF Rehydrated(v, alias_map).raised # NoException
    THEN [raised |-> Rehydrated(v, alias_map).raised, entity |-> PyNone]
    ELSE Constructed(BaseEntityType, Rehydrated(v, alias_map).row)

RECURSIVE ConvertedRows(_, _, _)
ConvertedRows(rows, i, alias_map) ==
    IF i > Len(rows) THEN [raised |-> NoException, entities |-> << >>]
    ELSE LET first == ConvertedRow(rows[i], alias_map)
             others == ConvertedRows(rows, i + 1, alias_map)
         IN  IF first.raised # NoException
             THEN [raised |-> first.raised, entities |-> << >>]
             ELSE [raised |-> others.raised,
                   entities |-> IF others.raised = NoException
                                THEN <<first.entity>> \o others.entities ELSE << >>]

\* result = [] and "if result_as_dict:" (basedao.py:516-517): the list
\* find_by_filtered_query returns.
ResultOf_cursor(cursor_result, converted) ==
    IF Truthy(cursor_result) THEN PyList(converted) ELSE cursor_result
ResultOf(cursor_result, converted) ==
    IF Truthy(cursor_result) THEN PyList(converted) ELSE PyList(<< >>)

\* The arguments of the selects: every list absent, empty, translatable, or
\* with a path that is unknown or goes on after a scalar.
FieldArguments ==
    { PyNone, PyList(<< >>),
      PyList(<<QueryClause("FieldClause", Path(<<"codigo">>), PyNone)>>),
      PyList(<<QueryClause("FieldClause", Path(<<"cliente_id">>), PyNone),
               QueryClause("FieldClause", Path(<<"codigo">>), PyNone)>>),
      PyList(<<QueryClause("FieldClause", Path(<<"username">>), PyNone)>>) }

FilterArguments ==
    { PyNone,
      PyList(<<QueryClause("FilterClause", Path(<<"codigo">>), "a")>>),
      PyList(<<QueryClause("FilterClause", Path(<<"codigo", "codigo">>), "a")>>),
      PyList(<<QueryClause("FilterClause", Path(<<"username", "codigo">>), "a")>>) }
    \cup { PyList(<<QueryClause("FilterClause", Path(<<"cliente_id">>), id)>>) :
             id \in 1..MaxRows }

OrderByArguments ==
    { PyNone,
      PyList(<<QueryClause("OrderByClause", Path(<<"codigo">>), PyNone)>>),
      PyList(<<QueryClause("OrderByClause", Path(<<"username">>), PyNone)>>) }

GroupByArguments ==
    { PyNone,
      PyList(<<QueryClause("GroupByClause", Path(<<"codigo">>), PyNone)>>),
      PyList(<<QueryClause("GroupByClause", Path(<<"codigo", "codigo">>), PyNone)>>) }

JoinArguments ==
    { PyNone,
      PyList(<<QueryClause("JoinClause", Path(<<"tipo_cliente">>), PyNone)>>),
      PyList(<<QueryClause("JoinClause", Path(<<"tipo_cliente", "usuario_creacion">>),
                           PyNone)>>),
      PyList(<<QueryClause("JoinClause", Path(<<"username">>), PyNone)>>) }

Queries ==
    [fields : FieldArguments, filters : FilterArguments, order_by : OrderByArguments,
     group_by : GroupByArguments, joins : JoinArguments]

QueryInit ==
    /\ q_pc = "ready"
    /\ db_rows = << >>
    /\ entities = << >>
    /\ query = Unset
    /\ translated = Unset
    /\ sql = Unset
    /\ executed = << >>
    /\ result_as_dict = Unset
    /\ result = Unset
    /\ q_raised = NoException
    /\ ConnectionInit
    /\ TranslatorIdle
    /\ BarrierIdle

\* BaseDao.insert(entity): the statement is executed and the identifier the
\* database generated is set on the entity, or cursor.execute raises.
insert ==
    /\ q_pc = "ready"
    /\ Len(entities) < MaxRows
    /\ \E entity \in NewEntities, fails \in BOOLEAN :
         LET lastrowid == Len(db_rows) + 1
             statement == [op |-> "insert", table |-> DaoTable, entity |-> entity]
         IN  /\ executed' = Append(executed, statement)
             /\ IF fails
                THEN /\ q_raised' = PymysqlError
                     /\ q_pc' = "raised"
                     /\ UNCHANGED <<db_rows, entities>>
                ELSE /\ db_rows' = Append(db_rows, InsertedRow(entity, lastrowid))
                     /\ entities' = Append(entities, [entity EXCEPT !.cliente_id = lastrowid])
                     /\ UNCHANGED <<q_pc, q_raised>>
    /\ UNCHANGED <<query, translated, sql, result_as_dict, result>>
    /\ UNCHANGED <<vars, tvars, bvars>>

\* find_by_filtered_query(fields, filters, order_by, joins, group_by) up to
\* the call of the internal function: the five translations.
find_by_filtered_query ==
    /\ q_pc = "ready"
    /\ \E q \in Queries :
         /\ query' = q
         /\ translated' = TranslateArguments(q)
         /\ q_pc' = TranslationEnds(TranslateArguments(q))
         /\ q_raised' = TranslateArguments(q).raised
    /\ UNCHANGED <<db_rows, entities, sql, executed, result_as_dict, result>>
    /\ UNCHANGED <<vars, tvars, bvars>>

\* __find_by_filtered_query_internal: the statement is rendered, printed and
\* executed; the cursor gives the rows or raises.
find_by_filtered_query_internal ==
    /\ q_pc = "translated"
    /\ sql' = Rendered(translated)
    /\ executed' = Append(executed, Rendered(translated))
    /\ \/ /\ q_raised' = PymysqlError
          /\ q_pc' = "raised"
          /\ UNCHANGED result_as_dict
       \/ /\ result_as_dict' \in FetchAll(SelectedRows(Rendered(translated), db_rows))
          /\ q_pc' = "executed"
          /\ UNCHANGED q_raised
    /\ UNCHANGED <<db_rows, entities, query, translated, result>>
    /\ UNCHANGED <<vars, tvars, bvars>>

\* The rest of find_by_filtered_query: every row becomes an entity and the
\* list is returned, or the conversion raises.
convert_result ==
    /\ q_pc = "executed"
    /\ LET converted == IF Truthy(result_as_dict)
                        THEN ConvertedRows(result_as_dict.items, 1,
                                           translated.join_alias_table_name)
                        ELSE [raised |-> NoException, entities |-> << >>]
       IN  IF converted.raised # NoException
           THEN /\ q_raised' = converted.raised
                /\ q_pc' = "raised"
                /\ UNCHANGED result
           ELSE /\ result' = ResultOf(result_as_dict, converted.entities)
                /\ q_pc' = "returned"
                /\ UNCHANGED q_raised
    /\ UNCHANGED <<db_rows, entities, query, translated, sql, executed, result_as_dict>>
    /\ UNCHANGED <<vars, tvars, bvars>>

QueryNext ==
    \/ insert
    \/ find_by_filtered_query
    \/ find_by_filtered_query_internal
    \/ convert_result

QuerySpec == QueryInit /\ [][QueryNext]_<<qvars, vars, tvars, bvars>>


\* The SELECT statements that reached the cursor.
SelectStatements == { i \in DOMAIN executed : executed[i].op = "SELECT" }

\* A translation of the select raised.
TranslationRaised == translated # Unset /\ translated.raised # NoException

\* C11: once a translation of a select has raised, no statement of that
\* select is rendered or executed and nothing is returned; and once the
\* execution of the statement has failed, there are no rows and no result.
C11_NoSqlAfterFailedTranslation ==
    /\ TranslationRaised =>
           /\ sql = Unset
           /\ SelectStatements = {}
           /\ result_as_dict = Unset
           /\ result = Unset
           /\ q_pc = "raised"
    /\ (sql # Unset /\ q_raised = PymysqlError) =>
           /\ result_as_dict = Unset
           /\ result = Unset
           /\ q_pc = "raised"

\* The fields were translated and the joins raised, with rows in the table.
C11_Witness ==
    /\ TranslationRaised
    /\ translated.fields # PyNone
    /\ Truthy(query.joins)
    /\ db_rows # << >>

\* select(filters=[id = e.id]) and nothing else.
IdQuery(e) ==
    [fields |-> PyNone,
     filters |-> PyList(<<QueryClause("FilterClause",
                                      Path(<<get_id_field_name(BaseEntityType)>>),
                                      e[get_id_field_name(BaseEntityType)])>>),
     order_by |-> PyNone, group_by |-> PyNone, joins |-> PyNone]

\* The entity found equals e in every mapped field, a relation by the
\* identifier of the nested entity.
SameMappedFields(found, e) ==
    LET model_dict == get_model_dict(BaseEntityType)
    IN  \A k \in DOMAIN model_dict :
            \/ found[k] = e[model_dict[k].name]
            \/ /\ IsBaseEntity(model_dict[k].field_type)
               /\ found[k] = FieldValue(e, model_dict[k])

\* C18: the select filtered on the identifier of e, executed right after
\* insert(e) and with the statement going through, returns exactly one
\* entity; it carries the identifier the database generated and every
\* mapped field of e.
C18_InsertSelectRoundTrip ==
    ( /\ entities # << >>
      /\ query = IdQuery(entities[Len(entities)])
      /\ q_pc \in {"returned", "raised"}
      /\ q_raised # PymysqlError )
    => /\ q_pc = "returned"
       /\ result.kind = "list"
       /\ Len(result.items) = 1
       /\ entities[Len(entities)].cliente_id = Len(db_rows)
       /\ SameMappedFields(result.items[1], entities[Len(entities)])

\* C19: a select whose statement gave no rows, an empty sequence or no value,
\* returns the empty list, whatever its clause arguments.
C19_EmptyRowsGiveEmptyList ==
    (q_pc \in {"returned", "raised"} /\ result_as_dict \in {PyNone, PyList(<< >>)})
    => /\ q_pc = "returned"
       /\ result = PyList(<< >>)

\* The cursor gave no value for a select with filters and joins on a table
\* that has rows.
C19_Witness ==
    /\ q_pc = "returned"
    /\ result_as_dict = PyNone
    /\ Truthy(query.filters)
    /\ Truthy(query.joins)
    /\ db_rows # << >>


\* ---------------------------------------------------------------------------
\* catch_exceptions (core/exception/exceptionhandler.py): decorated functions
\* calling decorated functions, and an exception raised under the barriers.
\* ---------------------------------------------------------------------------

\* Bounds on the nesting of decorated calls and on the undecorated calls
\* below the function that raises.
MaxBarriers == 3
MaxHelpers == 1

\* The classes of the exceptions raised under a barrier. KeyboardInterrupt and
\* SystemExit derive from BaseException only; TypeError is also what a call
\* with the wrong arguments raises.
ExceptionClasses ==
    {"ValueError", "IntegrityError", "OperationalError", "CustomException",
     "KeyboardInterrupt", "SystemExit"}

\* issubclass(cls, Exception)
IsException(class) == class \notin {"KeyboardInterrupt", "SystemExit"}

\* _known_error_types
known_error_types ==
    { <<"IntegrityError", "i18n_base_knownError_integrityError">>,
      <<"OperationalError", "i18n_base_knownError_operationalError">> }

\* i18nutils.translate(key): the text the catalogue of the locale has for the
\* key.
translate(key) == <<"text of", key>>

handle_known_exception(exception_type) ==
    IF exception_type # None /\ DictHas(known_error_types, exception_type[1])
    THEN translate(DictGet(known_error_types, exception_type[1]))
    ELSE None

\* An exception object. CustomException(message, exception, exception_type,
\* line) keeps the identity of the exception it wraps (0: none).
ExceptionObject(class, message, exception, exception_type, line) ==
    [class |-> class, message |-> message, exception |-> exception,
     exception_type |-> exception_type, line |-> line,
     known_error |-> handle_known_exception(exception_type)]

\* A frame of the call stack: the decorator of a barrier, the function it
\* decorates, or an undecorated function called below.
Frame(kind, level) == [kind |-> kind, level |-> level]

\* What traceback.format_tb prints for a frame depends on the interpreter and
\* on the files at hand: the line naming file, line number and function
\* only, when the source cannot be read ("file"); that line and the source
\* line ("source"); and from Python 3.11 on also a line of carets under the
\* failing expression when it is a part of its line, as a call is and a
\* raise statement is not ("carets").
TracebackStyles == {"file", "source", "carets"}

FileLine(frame) ==
    <<"  ", "File", frame.kind>> \o [i \in 1..frame.level |-> "'"]

SourceLine(frame) ==
    <<"    ", "source", frame.kind>> \o [i \in 1..frame.level |-> "'"]

CaretLine == <<"    ", "^">>

\* The frame of the traceback at position i is where a raise statement ran.
RaiseStatement(traceback, i) ==
    i = Len(traceback) /\ traceback[i].kind # "decorator"

\* ''.join(traceback.format_tb(exc_traceback)), from frame i on.
RECURSIVE FormattedTraceback(_, _, _)
FormattedTraceback(traceback, i, style) ==
    IF i > Len(traceback) THEN << >>
    ELSE FileLine(traceback[i]) \o <<"\n">>
         \o (IF style # "file" THEN SourceLine(traceback[i]) \o <<"\n">> ELSE << >>)
         \o (IF style = "carets" /\ ~RaiseStatement(traceback, i)
             THEN CaretLine \o <<"\n">> ELSE << >>)
         \o FormattedTraceback(traceback, i + 1, style)

\* str.strip(): without the white space at both ends.
RECURSIVE Strip(_)
Strip(line) ==
    IF line # << >> /\ line[1] \in {"  ", "    "} THEN Strip(Tail(line))
    ELSE IF line # << >> /\ line[Len(line)] \in {"  ", "    "}
    THEN Strip(SubSeq(line, 1, Len(line) - 1))
    ELSE line

\* error_line (exceptionhandler.py:80-86): the third line of the formatted
\* traceback when it splits into more than three pieces, else None.
ErrorLineOf(formatted_traceback_split) ==
    IF Len(formatted_traceback_split) > 3
    THEN Strip(formatted_traceback_split[3])
    ELSE None

ErrorLine(formatted_traceback) == ErrorLineOf(Split(formatted_traceback, "\n"))

\* raise CustomException(message, exc_instance, exc_type.__name__, error_line)
Wrapped(exc_instance, exc_type, formatted_traceback) ==
    ExceptionObject("CustomException",
                    [traceback |-> formatted_traceback, type |-> exc_type,
                     instance |-> exc_instance],
                    exc_instance, Str(exc_type), ErrorLine(formatted_traceback))

\* The except clause of the decorator that takes an exception of the class:
\* "except CustomException", "except Exception", or none.
ExceptClause(class) ==
    IF class = "CustomException" THEN "CustomException"
    ELSE IF IsException(class) THEN "Exception"
    ELSE "none"

\* The number of barriers entered and not left.
Barriers == Cardinality({ i \in DOMAIN frames : frames[i].kind = "decorator" })

BarrierInit ==
    /\ b_pc = "running"
    /\ frames = << >>
    /\ exceptions = << >>
    /\ in_flight = 0
    /\ tb = << >>
    /\ traceback_style \in TracebackStyles
    /\ ConnectionInit
    /\ TranslatorIdle
    /\ QueryIdle

\* A decorated function is called, by the caller or by the decorated function
\* running: decorator(*args) enters the try and function(*args) starts.
decorator ==
    /\ b_pc = "running"
    /\ Barriers < MaxBarriers
    /\ frames' = frames \o <<Frame("decorator", Barriers + 1),
                             Frame("function", Barriers + 1)>>
    /\ UNCHANGED <<b_pc, exceptions, in_flight, tb, traceback_style>>
    /\ UNCHANGED <<vars, tvars, qvars>>

\* The same call with arguments the function does not take: function(*args)
\* raises TypeError in the frame of the decorator.
decorator_call_fails ==
    /\ b_pc = "running"
    /\ Barriers < MaxBarriers
    /\ exceptions = << >>
    /\ frames' = Append(frames, Frame("decorator", Barriers + 1))
    /\ exceptions' = <<ExceptionObject("TypeError", << >>, 0, None, None)>>
    /\ in_flight' = 1
    /\ tb' = << >>
    /\ b_pc' = "unwinding"
    /\ UNCHANGED traceback_style
    /\ UNCHANGED <<vars, tvars, qvars>>

\* The decorated function running raises, itself or in undecorated functions
\* it called; nothing below the decorator handles the exception.
function_raises ==
    /\ b_pc = "running"
    /\ frames # << >>
    /\ exceptions = << >>
    /\ \E class \in ExceptionClasses, helpers \in 0..MaxHelpers :
         /\ exceptions' = <<ExceptionObject(class, << >>, 0, None, None)>>
         /\ tb' = <<frames[Len(frames)]>>
                   \o [i \in 1..helpers |-> Frame("helper", i)]
    /\ in_flight' = 1
    /\ frames' = SubSeq(frames, 1, Len(frames) - 1)
    /\ b_pc' = "unwinding"
    /\ UNCHANGED traceback_style
    /\ UNCHANGED <<vars, tvars, qvars>>

\* The decorated function returns and so does its decorator.
function_returns ==
    /\ b_pc = "running"
    /\ frames # << >>
    /\ frames' = SubSeq(frames, 1, Len(frames) - 2)
    /\ b_pc' = IF Len(frames) = 2 THEN "returned" ELSE "running"
    /\ UNCHANGED <<exceptions, in_flight, tb, traceback_style>>
    /\ UNCHANGED <<vars, tvars, qvars>>

\* An exception leaves the decorator on top of the stack and the function
\* that called it, if any, which handles nothing.
Leave(exception, traceback) ==
    /\ in_flight' = exception
    /\ frames' = SubSeq(frames, 1, Len(frames) - 2)
    /\ tb' = (IF Len(frames) > 1 THEN <<frames[Len(frames) - 1]>> ELSE << >>)
              \o traceback
    /\ b_pc' = IF Len(frames) > 1 THEN "unwinding" ELSE "escaped"
    /\ UNCHANGED traceback_style
    /\ UNCHANGED <<vars, tvars, qvars>>

\* except CustomException as c: raise c
except_CustomException ==
    /\ b_pc = "unwinding"
    /\ ExceptClause(exceptions[in_flight].class) = "CustomException"
    /\ UNCHANGED exceptions
    /\ Leave(in_flight, <<frames[Len(frames)]>> \o tb)

\* except Exception: the exception is wrapped in a new CustomException.
except_Exception ==
    /\ b_pc = "unwinding"
    /\ ExceptClause(exceptions[in_flight].class) = "Exception"
    /\ exceptions' =
           Append(exceptions,
                  Wrapped(in_flight, exceptions[in_flight].class,
                          FormattedTraceback(<<frames[Len(frames)]>> \o tb, 1,
                                             traceback_style)))
    /\ Leave(Len(exceptions) + 1, <<frames[Len(frames)]>>)

\* No except clause of the decorator takes the exception.
not_caught ==
    /\ b_pc = "unwinding"
    /\ ExceptClause(exceptions[in_flight].class) = "none"
    /\ UNCHANGED exceptions
    /\ Leave(in_flight, <<frames[Len(frames)]>> \o tb)

BarrierNext ==
    \/ decorator
    \/ decorator_call_fails
    \/ function_raises
    \/ function_returns
    \/ except_CustomException
    \/ except_Exception
    \/ not_caught

BarrierSpec == BarrierInit /\ [][BarrierNext]_<<bvars, vars, tvars, qvars>>


\* The exception some function raised first, and the one the caller got.
Original == exceptions[1]
Escaped == exceptions[in_flight]

\* The text names the file, line number and function of a frame of the
\* failing call, not of a decorator.
CallSiteLine(line) ==
    /\ line # None
    /\ Len(line) >= 2
    /\ line[1] = "File"
    /\ line[2] \in {"function", "helper"}

\* C20: an exception that crossed the nested barriers reaches the caller as
\* one CustomException: what was no CustomException is wrapped exactly once,
\* with the original instance, its type name and a call-site line; what was a
\* CustomException arrives as the same object, never wrapped.
C20_SingleEnvelope ==
    b_pc = "escaped" =>
        /\ Escaped.class = "CustomException"
        /\ Original.class = "CustomException" =>
               /\ in_flight = 1
               /\ Len(exceptions) = 1
        /\ Original.class # "CustomException" =>
               /\ Len(exceptions) = 2
               /\ in_flight = 2
               /\ Escaped.exception = 1
               /\ Escaped.exception_type = Str(Original.class)
               /\ CallSiteLine(Escaped.line)



\* ---------------------------------------------------------------------------
\* The joins of a query and one more clause list of the same query, translated
\* one after the other (core/dao/mysqldaotools.py).
\* ---------------------------------------------------------------------------

\* The paths of the joins: the relations of the entity at one and two hops,
\* and paths that end in a scalar field.
JoinPaths ==
    { Path(<<"tipo_cliente">>),
      Path(<<"usuario_creacion">>),
      Path(<<"tipo_cliente", "usuario_creacion">>),
      Path(<<"tipo_cliente", "usuario_creacion", "username">>),
      Path(<<"tipo_cliente", "codigo">>),
      Path(<<"codigo">>) }

\* JoinClause(table_name, join_type, None, parent_table_referenced_column_name,
\* table_alias, id_column_name) without a parent table: as the constructor
\* defaults leave it (id_column_name = "id"), with a table alias, with no id
\* column, and with the id and parent columns supplied.
JoinCallerClauses ==
    { Clause("JoinClause", p, v[1], None, None, v[2], v[3]) :
        p \in JoinPaths,
        v \in { <<None, Str("id"), None>>,
                <<Str("t1"), Str("id"), None>>,
                <<None, None, None>>,
                <<None, Str("pk"), Str("pcol")>> } }

JoinLists == UNION { [1..n -> JoinCallerClauses] : n \in 1..MaxClauses }

\* The paths of the clause translated after the joins: fields of the entity
\* and of the entities one and two hops away.
FieldPaths ==
    { Path(<<"codigo">>),
      Path(<<"tipo_cliente", "codigo">>),
      Path(<<"usuario_creacion", "username">>),
      Path(<<"tipo_cliente", "usuario_creacion", "username">>) }

JoinInit ==
    /\ clause_type = "JoinClause"
    /\ table_db_name = Str("clientes")
    /\ given \in JoinLists
    /\ heap = CallerHeap(given)
    /\ clauses_list = [i \in DOMAIN given |-> i]
    /\ clauses_translated = << >>
    /\ join_alias_table_name = {}
    /\ join_alias_dict = {}
    /\ raised = NoException
    /\ tr_pc = "call"
    /\ round = 1
    /\ first_output = << >>
    /\ ConnectionInit
    /\ QueryIdle
    /\ BarrierIdle

\* The joins are translated; the caller keeps them and hands one clause of
\* another class over for the same query.
translate_other_clause ==
    /\ tr_pc = "returned"
    /\ clause_type = "JoinClause"
    /\ round = 1
    /\ round' = 2
    /\ first_output' = [given |-> given, clauses |-> Output.clauses,
                        join_alias_dict |-> join_alias_dict]
    /\ \E kind \in ClauseTypes \ {"JoinClause"}, p \in FieldPaths, e \in BOOLEAN :
         /\ clause_type' = kind
         /\ given' = <<CallerClause(kind, p, e)>>
    /\ heap' = CallerHeap(given')
    /\ clauses_list' = <<1>>
    /\ clauses_translated' = << >>
    /\ join_alias_table_name' = {}
    /\ join_alias_dict' = {}
    /\ raised' = NoException
    /\ tr_pc' = "call"
    /\ UNCHANGED table_db_name
    /\ UNCHANGED tr_rest

JoinNext ==
    \/ resolve_translation_of_joins
    \/ translate_other_clause
    \/ resolve_translation_of_clauses

JoinSpec == JoinInit /\ [][JoinNext]_<<tvars, tr_rest>>

\* The joins have been translated and returned.
JoinsReturned == tr_pc = "returned" /\ clause_type = "JoinClause"

\* The joins of the list on the path one hop before the path of join i.
PrecedingHop(i) ==
    { j \in DOMAIN given : Segments(given[j]) = AllButLast(Segments(given[i])) }

\* C21: a translated JoinClause without an explicit parent table has the base
\* table as its parent table when its path has one segment, and the alias of
\* the join of the preceding hop when its path has two segments or more.
C21_ParentIsPrecedingHop ==
    JoinsReturned =>
        \A i \in DOMAIN given :
            given[i].parent_table = None =>
                IF Len(Segments(given[i])) = 1
                THEN TranslatedClause(i).parent_table = table_db_name
                ELSE PrecedingHop(i) # {} =>
                         \E j \in PrecedingHop(i) :
                             TranslatedClause(i).parent_table
                                 = TranslatedClause(j).table_alias


\* The alias a JoinClause carries, or the one made of its path.
OwnAlias(clause) ==
    IF clause.table_alias # None THEN clause.table_alias
    ELSE Join(Segments(clause), join_alias_separator)

\* The first join of the list that joins the table join j joins.
FirstJoinOf(j) ==
    CHOOSE i \in DOMAIN given :
        /\ TranslatedClause(i).table_name = TranslatedClause(j).table_name
        /\ \A k \in DOMAIN given :
               TranslatedClause(k).table_name = TranslatedClause(j).table_name => i <= k

\* C22 as stated: a JoinClause whose target table was joined earlier in the
\* same list is translated with the alias of that earlier join.
C22_JoinAliasReused ==
    JoinsReturned =>
        \A i, j \in DOMAIN given :
            (/\ i < j
             /\ TranslatedClause(i).table_name # None
             /\ TranslatedClause(i).table_name = TranslatedClause(j).table_name)
            => TranslatedClause(j).table_alias = TranslatedClause(i).table_alias

\* C22, amended: a JoinClause whose target table was joined earlier in the
\* same list keeps its own alias, and the alias recorded for the table stays
\* that of the first JoinClause that joined it.
C22_FirstAliasRecorded ==
    JoinsReturned =>
        \A j \in DOMAIN given :
            /\ TranslatedClause(j).table_alias = OwnAlias(given[j])
            /\ DictGet(join_alias_dict, TranslatedClause(j).table_name)
                   = TranslatedClause(FirstJoinOf(j)).table_alias

C22_Witness ==
    /\ JoinsReturned
    /\ \E i, j \in DOMAIN given :
           /\ i < j
           /\ TranslatedClause(i).table_name = Str("usuarios")
           /\ TranslatedClause(j).table_name = Str("usuarios")
           /\ TranslatedClause(j).table_alias # TranslatedClause(i).table_alias

\* The other clause has been translated and returned, after the joins.
OtherClauseReturned == tr_pc = "returned" /\ round = 2 /\ clause_type # "JoinClause"

\* Join i of the list was given no alias and is on the relation path of the
\* other clause, which was given no alias either.
JoinOfClausePath(i) ==
    /\ first_output.given[i].table_alias = None
    /\ given[1].table_alias = None
    /\ Len(Segments(given[1])) >= 2
    /\ Segments(first_output.given[i])
           = SubSeq(Segments(given[1]), 1, Len(Segments(given[1])) - 1)

\* C23: the default table alias of a field, filter, order-by or group-by
\* clause on path p.f is the default alias of the JoinClause on path p.
C23_ClauseAliasIsJoinAlias ==
    OtherClauseReturned =>
        \A i \in DOMAIN first_output.given :
            JoinOfClausePath(i) =>
                TranslatedClause(1).table_alias = first_output.clauses[i].table_alias

C23_Witness ==
    /\ OtherClauseReturned
    /\ clause_type = "FilterClause"
    /\ Len(Segments(given[1])) = 3
    /\ \E i \in DOMAIN first_output.given : JoinOfClausePath(i)

\* The path of join i ends in a field that references no table.
EndsInScalar(i) ==
    /\ Reached(i).status = "resolved"
    /\ Get(get_model_dict(Reached(i).owner),
           Segments(given[i])[Reached(i).pos]).referenced_table_name = None

\* C27: a JoinClause whose path ends in a scalar field makes the translation
\* raise a translation fault, whatever columns the caller supplied, and no
\* translated join has an undefined table name.
C27_ScalarJoinRaises ==
    (TranslationEnded /\ clause_type = "JoinClause") =>
        /\ \A i \in ClausesReached :
               EndsInScalar(i) =>
                   /\ tr_pc = "raised"
                   /\ i = Len(clauses_translated) + 1
                   /\ raised.type = "CustomException"
        /\ tr_pc = "returned" =>
               \A i \in DOMAIN given : TranslatedClause(i).table_name # None



\* ---------------------------------------------------------------------------
\* The rows of a select with fields of joined tables, as the cursor names
\* their columns, turned into entities (basedao.py:505-536).
\* ---------------------------------------------------------------------------

\* The joins of the relations of Cliente, each under the alias the translated
\* fields of its table carry.
RelationJoins ==
    PyList(<<[QueryClause("JoinClause", Path(<<"tipo_cliente">>), PyNone)
                 EXCEPT !.table_alias = <<"tipo_cliente">>],
             [QueryClause("JoinClause", Path(<<"usuario_creacion">>), PyNone)
                 EXCEPT !.table_alias = <<"usuario_creacion">>],
             [QueryClause("JoinClause", Path(<<"tipo_cliente", "usuario_creacion">>), PyNone)
                 EXCEPT !.table_alias = <<"tipo_cliente", "usuario_creacion">>]>>)

\* The fields selected: of the main table and of the joined ones.
SelectedPaths ==
    { Path(<<"codigo">>),
      Path(<<"cliente_id">>),
      Path(<<"tipo_cliente", "codigo">>),
      Path(<<"usuario_creacion", "username">>),
      Path(<<"tipo_cliente", "usuario_creacion", "username">>) }

JoinedQueries ==
    { [fields |-> PyList([k \in DOMAIN paths |->
                             QueryClause("FieldClause", paths[k], PyNone)]),
       filters |-> PyNone, order_by |-> PyNone, group_by |-> PyNone,
       joins |-> RelationJoins] :
        paths \in UNION { [1..n -> SelectedPaths] : n \in 1..MaxClauses } }

\* The key a DictCursor gives column k of a row: the name of the column, or
\* "<table alias>.<name>" when an earlier column of the row has that name.
ColumnKey(select, k) ==
    IF \E j \in 1..(k - 1) : select[j][2] = select[k][2]
    THEN select[k][1] \o <<DOT>> \o select[k][2]
    ELSE select[k][2]

\* A row of the cursor for the statement, with the value in every column.
DictCursorRow(statement, value) ==
    { <<ColumnKey(statement.select, k), value>> : k \in DOMAIN statement.select }

JoinedRowsInit ==
    /\ q_pc = "executed"
    /\ db_rows = << >>
    /\ entities = << >>
    /\ query \in JoinedQueries
    /\ translated = TranslateArguments(query)
    /\ sql = Rendered(translated)
    /\ executed = <<sql>>
    /\ result_as_dict \in { PyList(<<DictCursorRow(sql, c)>>) : c \in Codigos }
    /\ result = Unset
    /\ q_raised = NoException
    /\ ConnectionInit
    /\ TranslatorIdle
    /\ BarrierIdle

JoinedRowsSpec == JoinedRowsInit /\ [][convert_result]_<<qvars, vars, tvars, bvars>>

\* The row the cursor gave.
CursorRow == result_as_dict.items[1]

\* The entries of the alias dictionary whose key is a column of the row.
Applicable ==
    { e \in translated.join_alias_table_name :
        e[1][2] \o <<DOT>> \o e[1][3] \in Columns(CursorRow) }

\* The value under the segments in nested mappings, Unset when a mapping or
\* the key is missing.
RECURSIVE NestedValue(_, _)
NestedValue(d, segments) ==
    IF ~DictHas(d, segments[1]) THEN Unset
    ELSE IF Len(segments) = 1 THEN DictGet(d, segments[1])
    ELSE NestedValue(DictGet(d, segments[1]), Tail(segments))

\* The segments under which the value of entry e belongs: its prefix, if any,
\* and its logical field name.
PlaceOf(e) ==
    (IF e[2][3] = None THEN << >> ELSE Split(e[2][3], DOT)) \o <<e[1][3]>>

\* C24: every entry of the alias dictionary whose key is a column of the row
\* is applied before the row goes to the factory of the root entity: the
\* value ends under its logical field name, inside nested mappings for the
\* segments of its prefix.
C24_EveryEntryApplied ==
    (q_pc \in {"returned", "raised"} /\ Applicable # {}) =>
        /\ Rehydrated(CursorRow, translated.join_alias_table_name).raised = NoException
        /\ \A e \in Applicable :
               NestedValue(Rehydrated(CursorRow, translated.join_alias_table_name).row,
                           PlaceOf(e))
                   = DictGet(CursorRow, e[1][2] \o <<DOT>> \o e[1][3])

----------------------------------------------------------------------------
\* Rendering of translated clause lists (core/util/listutils.py,
\* core/dao/mysqldaotools.py:68-199).

\* Bound on the length of the list an IN filter compares with.
MaxValues == 2

\* The values a filter compares with: str(i) is text, isinstance(i, str) is
\* kind = "str".
PyInt(text) == [kind |-> "int", text |-> Str(text)]
PyStr(text) == [kind |-> "str", text |-> Str(text)]
Values == {PyInt("1"), PyStr("a")}
InLists == UNION { {PyList(l) : l \in [1..n -> Values]} : n \in 1..MaxValues }

\* EnumFilterTypes.filter_keyword, EnumOperatorTypes.operator_keyword and
\* EnumOrderByTypes.order_by_keyword are the names used here.
FilterClause(path, filter_type, object_to_compare, operator_type, parentheses) ==
    Clause("FilterClause", path, None, None, None, None, None)
        @@ [filter_type |-> filter_type, object_to_compare |-> object_to_compare,
            operator_type |-> operator_type, start_parenthesis |-> parentheses,
            end_parenthesis |-> parentheses]

OrderByClause(path, order_by_type) ==
    Clause("OrderByClause", path, None, None, None, None, None)
        @@ [order_by_type |-> order_by_type]

RenderedTypes == {"FieldClause", "FilterClause", "OrderByClause", "GroupByClause"}

RenderPaths == { Path(<<"codigo">>), Path(<<"tipo_cliente", "codigo">>) }

\* The clause objects a caller builds for a list that is translated and then
\* rendered.
RenderClauses(kind) ==
    CASE kind = "FilterClause" ->
             { FilterClause(Path(<<"codigo">>), "=", v, "AND", 0) : v \in Values }
             \cup { FilterClause(Path(<<"codigo">>), "LIKE", PyStr("a"), "AND", 0),
                    FilterClause(Path(<<"codigo">>), "=", PyInt("1"), "OR", 0),
                    FilterClause(Path(<<"tipo_cliente", "codigo">>), "=", PyInt("1"), "AND", 1) }
             \cup { FilterClause(Path(<<"codigo">>), "IN", l, "AND", 0) : l \in InLists }
             \cup { FilterClause(Path(<<"codigo">>), "NOT IN", PyList(<<PyInt("1"), PyStr("a")>>), "AND", 0) }
      [] kind = "OrderByClause" ->
             { OrderByClause(p, t) : p \in RenderPaths, t \in {"ASC", "DESC"} }
      [] OTHER -> { CallerClause(kind, p, e) : p \in RenderPaths, e \in BOOLEAN }

\* element = f"'{i}'" if isinstance(i, str) else str(i)
Element(i) == IF i.kind = "str" THEN <<"'">> \o i.text \o <<"'">> ELSE i.text

\* for idx, i in enumerate(item.object_to_compare): each pass assigns compare
\* (mysqldaotools.py:98-111); idx counts from 1 here.
RECURSIVE EnumerateCompare(_, _, _)
EnumerateCompare(compare, object_to_compare, idx) ==
    IF idx > Len(object_to_compare) THEN compare
    ELSE EnumerateCompare(
             IF idx = 1 THEN <<"(">> \o Element(object_to_compare[idx])
             ELSE IF idx = Len(object_to_compare)
                  THEN <<", ">> \o Element(object_to_compare[idx]) \o <<")">>
                  ELSE <<", ">> \o Element(object_to_compare[idx]),
             object_to_compare, idx + 1)

\* compare of resolve_filter_clause (mysqldaotools.py:92-120): LIKE, IN and the
\* other filter types, then the quotes round a string.
Compare(item) ==
    IF item.filter_type \in {"LIKE", "NOT LIKE"}
    THEN <<"'", "%">> \o item.object_to_compare.text \o <<"%", "'">>
    ELSE IF item.filter_type \in {"IN", "NOT IN"}
    THEN IF Len(item.object_to_compare.items) > 1
         THEN EnumerateCompare(None, item.object_to_compare.items, 1)
         ELSE <<"(">> \o item.object_to_compare.items[1].text \o <<")">>
    ELSE IF item.object_to_compare.kind = "str"
    THEN <<"'">> \o item.object_to_compare.text \o <<"'">>
    ELSE item.object_to_compare.text

\* for p in range(n): parenthesis += c
Parenthesis(n, c) == [p \in 1..n |-> c]

\* The string one resolve_*_clause call appends for item.
resolve_filter_clause(item, is_first) ==
    (IF is_first THEN <<"WHERE ">> ELSE <<" ", item.operator_type, " ">>)
        \o Parenthesis(item.start_parenthesis, "(")
        \o item.table_alias \o <<DOT>> \o item.field_name
        \o <<" ", item.filter_type, " ">> \o Compare(item)
        \o Parenthesis(item.end_parenthesis, ")")

resolve_order_by_clause(item, is_first) ==
    <<IF is_first THEN "ORDER BY " ELSE ", ">>
        \o item.table_alias \o <<DOT>> \o item.field_name \o <<" ", item.order_by_type>>

resolve_group_by_clause(item, is_first) ==
    <<IF is_first THEN "GROUP BY " ELSE ", ">>
        \o item.table_alias \o <<DOT>> \o item.field_name \o <<" ">>

resolve_field_clause(item, is_last) ==
    item.table_alias \o <<DOT>> \o item.field_name \o <<" ">> \o item.field_alias
        \o <<" ", IF is_last THEN "" ELSE ", ", " ">>

\* function(loop_object, *args) of optimized_for_loop for the clause class.
Resolved(kind, item, is_first, is_last) ==
    CASE kind = "FilterClause" -> resolve_filter_clause(item, is_first)
      [] kind = "OrderByClause" -> resolve_order_by_clause(item, is_first)
      [] kind = "GroupByClause" -> resolve_group_by_clause(item, is_first)
      [] OTHER -> resolve_field_clause(item, is_last)

\* LoopIterationObject(item, is_first=item is list_to_loop[0],
\* is_last=item is list_to_loop[-1]) for every item of the list, handed to the
\* function; the array the calls have filled.
ForLoop(kind, objects, list_to_loop) ==
    [i \in DOMAIN list_to_loop |->
        Resolved(kind, objects[list_to_loop[i]],
                 list_to_loop[i] = list_to_loop[1],
                 list_to_loop[i] = list_to_loop[Len(list_to_loop)])]

\* The lists of m positions over n objects that hold every object.
ListsOver(n, m) ==
    { l \in [1..m -> 1..n] : \A k \in 1..n : \E i \in 1..m : l[i] = k }

\* The caller's objects and its list: n objects, and a list of up to
\* MaxClauses positions that may hold one object twice.
RenderInit ==
    /\ clause_type \in RenderedTypes
    /\ table_db_name = Str("clientes")
    /\ \E n \in 1..MaxClauses :
         /\ heap \in { CallerHeap(l) : l \in [1..n -> RenderClauses(clause_type)] }
         /\ clauses_list \in UNION { ListsOver(n, m) : m \in 1..MaxClauses }
    /\ given = [i \in DOMAIN clauses_list |-> heap[clauses_list[i]]]
    /\ clauses_translated = << >>
    /\ join_alias_table_name = {}
    /\ join_alias_dict = {}
    /\ raised = NoException
    /\ tr_pc = "call"
    /\ round = 1
    /\ first_output = << >>
    /\ ConnectionInit
    /\ QueryIdle
    /\ BarrierIdle

\* optimized_for_loop(clauses_translated, resolve_*_clause, arr): sql holds arr.
optimized_for_loop ==
    /\ tr_pc = "returned"
    /\ tr_pc' = "rendered"
    /\ sql' = ForLoop(clause_type, heap, clauses_translated)
    /\ UNCHANGED <<clause_type, table_db_name, heap, clauses_list, given,
                   clauses_translated, join_alias_table_name, join_alias_dict,
                   raised, round, first_output>>
    /\ UNCHANGED <<q_pc, db_rows, entities, query, translated, executed,
                   result_as_dict, result, q_raised>>
    /\ UNCHANGED <<vars, bvars>>

RenderNext == resolve_translation_of_clauses \/ optimized_for_loop

RenderSpec == RenderInit /\ [][RenderNext]_<<tvars, tr_rest>>

\* The leading keyword of a clause class, None for select fields.
LeadingKeyword ==
    CASE clause_type = "FilterClause" -> "WHERE "
      [] clause_type = "OrderByClause" -> "ORDER BY "
      [] clause_type = "GroupByClause" -> "GROUP BY "
      [] OTHER -> ""

\* What stands before element i > 1: the connector of the filter, or a comma.
Connector(i) ==
    IF clause_type = "FilterClause"
    THEN <<" ", heap[clauses_translated[i]].operator_type, " ">>
    ELSE <<", ">>

\* The tokens of the rendered element i.
Tokens(i) == { sql[i][k] : k \in DOMAIN sql[i] }

\* C25: a translated list of n >= 1 clauses is rendered with the leading
\* keyword once, before the first element only, the connector or comma
\* before each other element, and for select fields a comma after every
\* element but the last, also when the caller's list holds one clause at two
\* positions.
C25_SeparatorsByPosition ==
    tr_pc = "rendered" =>
        /\ Len(sql) = Len(clauses_list)
        /\ \A i \in DOMAIN sql :
             IF clause_type = "FieldClause"
             THEN (", " \in Tokens(i)) <=> (i < Len(sql))
             ELSE /\ (LeadingKeyword \in Tokens(i)) <=> (i = 1)
                  /\ i = 1 => sql[i][1] = LeadingKeyword
                  /\ i > 1 => SubSeq(sql[i], 1, Len(Connector(i))) = Connector(i)

\* A list holding one clause object at two positions was translated and
\* rendered.
C25_Witness ==
    /\ tr_pc = "rendered"
    /\ \E i, j \in DOMAIN clauses_list : i < j /\ clauses_list[i] = clauses_list[j]

\* The comparison of the rendered filter i: what follows the keyword of the
\* filter type.
RenderedCompare(i) ==
    SubSeq(sql[i],
           (CHOOSE k \in DOMAIN sql[i] : sql[i][k] = heap[clauses_translated[i]].filter_type) + 2,
           Len(sql[i]) - heap[clauses_translated[i]].end_parenthesis)

\* The elements of a list in order, strings in single quotes, separated by
\* commas, inside one pair of parentheses.
RECURSIVE CommaSeparated(_)
CommaSeparated(elements) ==
    IF Len(elements) = 1 THEN Element(elements[1])
    ELSE Element(elements[1]) \o <<", ">> \o CommaSeparated(Tail(elements))

\* C26: an IN or NOT IN filter over a list of n >= 1 elements is rendered
\* with one parenthesized, comma-separated list of all n elements in order,
\* the strings in single quotes.
C26_InListRendered ==
    tr_pc = "rendered" /\ clause_type = "FilterClause" =>
        \A i \in DOMAIN sql :
            heap[clauses_translated[i]].filter_type \in {"IN", "NOT IN"} =>
                RenderedCompare(i)
                    = <<"(">> \o CommaSeparated(heap[clauses_translated[i]].object_to_compare.items)
                          \o <<")">>

----------------------------------------------------------------------------
\* disconnect() and the order of an outermost call (core/dao/basedao.py:194-205,
\* core/service/service.py:57-96).

\* C28: when disconnect() called by a context holding a record is left,
\* whatever closing the cursor and the connection did, the context has no
\* record, so its next outermost connect() returns True.
C28_DisconnectRemovesRecord ==
    \A t \in Contexts :
        (last.ctx = t /\ last.op = "disconnect") => ~HasRecord(t)

\* The operations of the chain of t on the registry, in order.
Operations(t) == [i \in DOMAIN trace[t] |-> trace[t][i].op]

\* The first exception of the chain came out of the wrapped function.
FunctionFault(t) == failure[t] \in {"stmt_error", "other"}

\* C29: an outermost call connects, runs its function, finalises once and
\* disconnects last: after a normal return it has committed once and not
\* rolled back, after an exception of the wrapped function it has rolled
\* back and committed nothing.
C29_OutermostCallOrder ==
    \A t \in Contexts :
        ChainEnded(t) =>
            /\ outcome[t] = "returned" =>
                  /\ Operations(t) = <<"connect", "commit", "disconnect">>
                  /\ trace[t][2].ok
            /\ (outcome[t] = "raised" /\ FunctionFault(t)) =>
                  Operations(t) = <<"connect", "rollback", "disconnect">>

----------------------------------------------------------------------------
\* Contexts competing for the pool (core/dao/basedao.py:86-205,
\* core/service/service.py:57-96).

\* The pool set up with maxconnections = 1 and blocking = True: fewer
\* connections than contexts.
LivePool == {NextIdle(Connections)}

LiveInit ==
    /\ connected_threads = [h \in RegistryHolders |-> [t \in Contexts |-> NoRecord]]
    /\ pool = LivePool
    /\ stack = [t \in Contexts |-> << >>]
    /\ pc = [t \in Contexts |-> "idle"]
    /\ exc = [t \in Contexts |-> "none"]
    /\ failure = [t \in Contexts |-> "none"]
    /\ pending = [t \in Contexts |-> 0]
    /\ trace = [t \in Contexts |-> << >>]
    /\ outcome = [t \in Contexts |-> "none"]
    /\ last = NoEvent
    /\ TranslatorIdle
    /\ QueryIdle
    /\ BarrierIdle

\* The steps of __start_transaction, connect() and disconnect() a running
\* thread takes on its own when nothing raises.
Progress(t) ==
    \/ ConnectCheck(t)
    \/ Register(t)
    \/ Commit(t)
    \/ Except(t)
    \/ Finally(t)
    \/ Disconnect(t)
    \/ CloseCursor(t)
    \/ CloseConnection(t)
    \/ Pop(t)

\* The wrapped function of the call at depth d ends.
FunctionEnds(t, d) == Depth(t) = d /\ (FunctionReturns(t) \/ FunctionRaises(t))

\* Every thread is scheduled, every wrapped function terminates, and a thread
\* blocked in __POOL.connection() is served when connections keep coming back.
LiveFairness ==
    \A t \in Contexts :
        /\ WF_vars(Progress(t))
        /\ \A d \in 1..MaxDepth : SF_vars(FunctionEnds(t, d))
        /\ SF_vars(PoolConnection(t))

LiveSpec == LiveInit /\ [][Next]_vars /\ LiveFairness

\* The context is blocked in __POOL.connection().
Waiting(t) == pc[t] = "pool_connection"

\* C30: a context asks the pool for a connection only in an outermost
\* connect() and while it holds none, and a context waiting in connect()
\* eventually gets a connection (or the pool's exception).
C30_WaitingContextConnects ==
    /\ [](\A t \in Contexts : Waiting(t) => (Depth(t) = 1 /\ ~HasRecord(t)))
    /\ \A t \in Contexts : Waiting(t) ~> ~Waiting(t)

====
